---- MODULE Spec2Model ----
(***************************************************************************)
(* Portfolio tools of the agentic advisor (src/app.py):                    *)
(*   fetch_portfolio_data, analyze_portfolio_drift, optimize_portfolio.    *)
(*                                                                         *)
(* Python floats are modelled as exact rationals extended with NaN.        *)
(* Amounts and prices are integers; a bucket total is held in TENTHS of a  *)
(* dollar so that the 0.6 / 0.4 split of a "balanced" row is exact.  A     *)
(* percentage v / total * 100 is held as its numerator 100 * v over the    *)
(* denominator total.  Where the binary rounding error of a float decides  *)
(* the outcome (a decimal tie in round(x, 1)), both outcomes are allowed.  *)
(***************************************************************************)
EXTENDS Integers, Sequences, FiniteSets, TLC

(***************************************************************************)
(* Strings: str.lower(), the `in` substring test, str.isdigit(),           *)
(* str.split()[0] and int().                                               *)
(***************************************************************************)
UpperAlpha == "ABCDEFGHIJKLMNOPQRSTUVWXYZ"

LowerAlpha == "abcdefghijklmnopqrstuvwxyz"

Digits == "0123456789"

\* position of the one-character string c in alphabet, 0 when absent
IndexIn(c, alphabet) ==
    IF \E i \in 1..Len(alphabet) : SubSeq(alphabet, i, i) = c
    THEN CHOOSE i \in 1..Len(alphabet) : SubSeq(alphabet, i, i) = c
    ELSE 0

LowerChar(c) ==
    LET i == IndexIn(c, UpperAlpha)
    IN  IF i = 0 THEN c ELSE SubSeq(LowerAlpha, i, i)

UpperChar(c) ==
    LET i == IndexIn(c, LowerAlpha)
    IN  IF i = 0 THEN c ELSE SubSeq(UpperAlpha, i, i)

RECURSIVE lower(_)
lower(s) ==
    IF Len(s) = 0 THEN ""
    ELSE LowerChar(SubSeq(s, 1, 1)) \o lower(SubSeq(s, 2, Len(s)))

RECURSIVE upper(_)
upper(s) ==
    IF Len(s) = 0 THEN ""
    ELSE UpperChar(SubSeq(s, 1, 1)) \o upper(SubSeq(s, 2, Len(s)))

\* Python's  sub in s
Contains(s, sub) ==
    \E i \in 1..(Len(s) - Len(sub) + 1) : SubSeq(s, i, i + Len(sub) - 1) = sub

IsDigitChar(c) == IndexIn(c, Digits) # 0

IsSpaceChar(c) == c = " "

\* s.split()[0] : the first whitespace-delimited token ("" stands for the
\* IndexError of an all-blank string, which no caller reaches)
RECURSIVE SkipSpaces(_)
SkipSpaces(s) ==
    IF Len(s) > 0 /\ IsSpaceChar(SubSeq(s, 1, 1))
    THEN SkipSpaces(SubSeq(s, 2, Len(s)))
    ELSE s

RECURSIVE TakeToken(_)
TakeToken(s) ==
    IF Len(s) = 0 \/ IsSpaceChar(SubSeq(s, 1, 1)) THEN ""
    ELSE SubSeq(s, 1, 1) \o TakeToken(SubSeq(s, 2, Len(s)))

FirstToken(s) == TakeToken(SkipSpaces(s))

\* int(tok): the value of a string of decimal digits, ParseError otherwise
ParseError == -1

RECURSIVE DigitsValue(_, _)
DigitsValue(tok, acc) ==
    IF Len(tok) = 0 THEN acc
    ELSE DigitsValue(SubSeq(tok, 2, Len(tok)),
                     10 * acc + (IndexIn(SubSeq(tok, 1, 1), Digits) - 1))

ParseInt(tok) ==
    IF Len(tok) > 0 /\ \A i \in 1..Len(tok) : IsDigitChar(SubSeq(tok, i, i))
    THEN DigitsValue(tok, 0)
    ELSE ParseError

(***************************************************************************)
(* Buckets, classifiers and target tables.                                 *)
(***************************************************************************)
\* the six keys of `buckets`, in dictionary order
BucketOrder ==
    << "US Equity", "International Equity", "Emerging Markets",
       "Bonds", "Real Estate", "Cash" >>

Buckets == { BucketOrder[i] : i \in 1..Len(BucketOrder) }

\* classify() nested in analyze_portfolio_drift
classify_drift(asset_name) ==
    LET al == lower(asset_name)
    IN  IF Contains(al, "bond") \/ Contains(al, "fixed income") THEN "Bonds"
        ELSE IF Contains(al, "real estate") \/ Contains(al, "reit") THEN "Real Estate"
        ELSE IF Contains(al, "emerging") THEN "Emerging Markets"
        ELSE IF Contains(al, "international") \/ Contains(al, "developed")
             THEN "International Equity"
        ELSE IF Contains(al, "cash") \/ Contains(al, "usd") THEN "Cash"
        ELSE "US Equity"

\* classify() nested in optimize_portfolio
classify_optimize(asset_name) ==
    LET al == lower(asset_name)
    IN  IF Contains(al, "bond") THEN "Bonds"
        ELSE IF Contains(al, "real estate") \/ Contains(al, "reit") THEN "Real Estate"
        ELSE IF Contains(al, "emerging") THEN "Emerging Markets"
        ELSE IF Contains(al, "international") \/ Contains(al, "developed")
             THEN "International Equity"
        ELSE IF Contains(al, "cash") THEN "Cash"
        ELSE "US Equity"

\* 'balanced' in asset_cls.lower()
IsBalanced(asset_cls) == Contains(lower(asset_cls), "balanced")

Row(us, intl, em, bonds, re, cash) ==
    [b \in Buckets |->
        CASE b = "US Equity" -> us
          [] b = "International Equity" -> intl
          [] b = "Emerging Markets" -> em
          [] b = "Bonds" -> bonds
          [] b = "Real Estate" -> re
          [] b = "Cash" -> cash]

\* target_map_full of analyze_portfolio_drift
target_map_full ==
    [r \in 1..5 |->
        CASE r = 1 -> Row(20, 5, 0, 55, 5, 15)
          [] r = 2 -> Row(30, 10, 0, 45, 5, 10)
          [] r = 3 -> Row(40, 12, 3, 35, 5, 5)
          [] r = 4 -> Row(50, 15, 5, 25, 5, 0)
          [] r = 5 -> Row(60, 20, 10, 5, 5, 0)]

\* variant: the two tables drift apart in one entry (risk 4, Cash)
TargetMapEdited ==
    [r \in 1..5 |->
        CASE r = 1 -> Row(20, 5, 0, 55, 5, 15)
          [] r = 2 -> Row(30, 10, 0, 45, 5, 10)
          [] r = 3 -> Row(40, 12, 3, 35, 5, 5)
          [] r = 4 -> Row(50, 15, 5, 20, 5, 5)
          [] r = 5 -> Row(60, 20, 10, 5, 5, 0)]

\* target_map of optimize_portfolio
target_map ==
    [r \in 1..5 |->
        CASE r = 1 -> Row(20, 5, 0, 55, 5, 15)
          [] r = 2 -> Row(30, 10, 0, 45, 5, 10)
          [] r = 3 -> Row(40, 12, 3, 35, 5, 5)
          [] r = 4 -> Row(50, 15, 5, 25, 5, 0)
          [] r = 5 -> Row(60, 20, 10, 5, 5, 0)]

\* dict.get(risk_level, table[3])
TargetRow(table, risk_level) ==
    IF risk_level \in DOMAIN table THEN table[risk_level] ELSE table[3]

\* int(risk_tolerance.split()[0]) if risk_tolerance and
\* risk_tolerance[0].isdigit() else 3        (ParseError when int() raises)
ParseRiskLevel(risk_tolerance) ==
    IF Len(risk_tolerance) > 0 /\ IsDigitChar(SubSeq(risk_tolerance, 1, 1))
    THEN ParseInt(FirstToken(risk_tolerance))
    ELSE 3

(***************************************************************************)
(* The vocabulary of the inputs, and the string functions tabulated over   *)
(* it (each table is the function of the same code, evaluated once).       *)
(***************************************************************************)
NoKey == "<no key>"

\* asset-class labels of the small portfolios
Labels ==
    { "US Equity", "Fixed Income", "Emerging Bond Fund", "Balanced Portfolio",
      "Balanced Cash Fund", "USD Money", "International Developed", "REIT" }

\* asset-class labels of the six-class portfolios
AllocLabels ==
    { "US Equity", "International Equity", "Emerging Markets", "Bond Portfolio",
      "Real Estate (REITs)", "Cash" }

\* ticker strings as the user typed them
TickerStrings == { "", "SPY", "zzzz", "VEA", "VWO", "BND", "reits" }

RiskStrings ==
    { "", "None", "High", "1 - Conservative", "2", "3 - Moderate",
      "4 - Aggressive", "4-Aggressive", "45", "5" }

\* questionnaire_responses["risk_tolerance"]
StoredRisks == { NoKey, "5 - Very Aggressive" }

\* the free-text holdings argument of fetch_portfolio_data
Holdings == { "US Equity", "Bond Portfolio" }

DriftBucketOf == [l \in Labels \cup AllocLabels |-> classify_drift(l)]

OptimizeBucketOf == [l \in Labels \cup AllocLabels |-> classify_optimize(l)]

BalancedOf == [l \in Labels \cup AllocLabels |-> IsBalanced(l)]

UpperOf == [t \in TickerStrings |-> upper(t)]

RiskLevelOf ==
    [r \in RiskStrings \cup {"3 - Moderate"} \cup (StoredRisks \ {NoKey}) |->
        ParseRiskLevel(r)]

(***************************************************************************)
(* Floats: an exact value or NaN.  NaN is absorbing for + and *, and every *)
(* comparison with NaN is false.                                           *)
(***************************************************************************)
F(n) == [nan |-> FALSE, v |-> n]

NaN == [nan |-> TRUE, v |-> 0]

FAdd(a, b) == IF a.nan \/ b.nan THEN NaN ELSE F(a.v + b.v)

\* a * k for an exact factor k
FScale(a, k) == IF a.nan THEN NaN ELSE F(a.v * k)

\* a == 0
FIsZero(a) == ~a.nan /\ a.v = 0

Abs(n) == IF n < 0 THEN -n ELSE n

(***************************************************************************)
(* The session store and the price oracle (external collaborators).        *)
(*                                                                         *)
(* A position row is [ticker, amount, units]; NoKey as ticker says the row *)
(* has no "ticker" key.  positions is the decoded JSON payload: a sequence *)
(* of [cls, rows] in dictionary order.                                     *)
(***************************************************************************)
\* what the record of the session holds:
\*   kind "no_record"    no row for the session id
\*        "no_field"     questionnaire_responses without "positions"
\*        "empty_string" positions == ""
\*        "json"         positions is a JSON string; `positions` is json.loads of it
\*   risk_tolerance      questionnaire_responses["risk_tolerance"], or NoKey
Store(kind, positions, risk_tolerance) ==
    [kind |-> kind, positions |-> positions, risk_tolerance |-> risk_tolerance]

\* one entry of the price map:  a price, NaN, None, or no entry
Priced(p) == [tag |-> "num", v |-> p]

PriceNaN == [tag |-> "nan", v |-> 0]

PriceNone == [tag |-> "none", v |-> 0]

PriceAbsent == [tag |-> "absent", v |-> 0]

MarketTickers == {"SPY", "ZZZZ"}

\* latest_prices.get(tkr) / price_dict[t]: tickers the market does not know
\* have no entry
PriceOf(prices, tkr) ==
    IF tkr \in DOMAIN prices THEN prices[tkr] ELSE PriceAbsent

\* all rows of all asset classes:  [row for arr in positions.values() for row in arr]
RECURSIVE AllRows(_)
AllRows(positions) ==
    IF positions = << >> THEN << >>
    ELSE Head(positions).rows \o AllRows(Tail(positions))

SeqToSet(s) == { s[i] : i \in 1..Len(s) }

(***************************************************************************)
(* Valuation engine shared in shape by the drift and the optimize path.    *)
(***************************************************************************)
\* the initial `buckets` dictionary
EmptyBuckets == [b \in Buckets |-> F(0)]

\* variant: the split is applied only to labels the classifier leaves in
\* US Equity
AddPositionClassifiedFirst(bkts, bucket, balanced, val) ==
    IF balanced /\ bucket = "US Equity"
    THEN [bkts EXCEPT !["US Equity"] = FAdd(@, FScale(val, 6)),
                      !["Bonds"] = FAdd(@, FScale(val, 4))]
    ELSE [bkts EXCEPT ![bucket] = FAdd(@, FScale(val, 10))]

\* variant: a balanced row is split and also added to the bucket of its label
AddPositionSplitAndBucket(bkts, bucket, balanced, val) ==
    LET split == [bkts EXCEPT !["US Equity"] = FAdd(@, FScale(val, 6)),
                              !["Bonds"] = FAdd(@, FScale(val, 4))]
    IN  IF balanced THEN [split EXCEPT ![bucket] = FAdd(@, FScale(val, 10))]
        ELSE [bkts EXCEPT ![bucket] = FAdd(@, FScale(val, 10))]

\* the balanced split / single-bucket accumulation; val is in dollars and
\* the totals are in tenths:  val * 0.6 -> 6 val, val * 0.4 -> 4 val, val -> 10 val
AddPosition(bkts, bucket, balanced, val) ==
    IF balanced
    THEN [bkts EXCEPT !["US Equity"] = FAdd(@, FScale(val, 6)),
                      !["Bonds"] = FAdd(@, FScale(val, 4))]
    ELSE [bkts EXCEPT ![bucket] = FAdd(@, FScale(val, 10))]

\* sum(buckets.values())
SumBuckets(bkts) ==
    FAdd(bkts[BucketOrder[1]], FAdd(bkts[BucketOrder[2]], FAdd(bkts[BucketOrder[3]],
    FAdd(bkts[BucketOrder[4]], FAdd(bkts[BucketOrder[5]], bkts[BucketOrder[6]])))))

\* rows of one asset class, analyze_portfolio_drift: an unresolvable price
\* (no entry, None, NaN) skips the row
RECURSIVE drift_rows(_, _, _, _)
drift_rows(rows, asset_cls, latest_prices, bkts) ==
    IF rows = << >> THEN bkts
    ELSE LET row == Head(rows)
             price == PriceOf(latest_prices,
                              UpperOf[IF row.ticker = NoKey THEN "" ELSE row.ticker])
         IN  IF row.units = "usd"
             THEN drift_rows(Tail(rows), asset_cls, latest_prices,
                             AddPosition(bkts, DriftBucketOf[asset_cls],
                                         BalancedOf[asset_cls], F(row.amount)))
             ELSE IF price.tag # "num"
             THEN drift_rows(Tail(rows), asset_cls, latest_prices, bkts)
             ELSE drift_rows(Tail(rows), asset_cls, latest_prices,
                             AddPosition(bkts, DriftBucketOf[asset_cls],
                                         BalancedOf[asset_cls],
                                         F(row.amount * price.v)))

RECURSIVE drift_buckets(_, _, _)
drift_buckets(positions, latest_prices, bkts) ==
    IF positions = << >> THEN bkts
    ELSE drift_buckets(Tail(positions), latest_prices,
                       drift_rows(Head(positions).rows, Head(positions).cls,
                                  latest_prices, bkts))

\* val = amt if units=='usd' else amt * prices.get(row['ticker'].upper(), 0)
optimize_val(row, prices) ==
    IF row.units = "usd" THEN F(row.amount)
    ELSE LET price == PriceOf(prices, UpperOf[row.ticker])
         IN  CASE price.tag = "num" -> F(row.amount * price.v)
               [] price.tag = "absent" -> F(0)
               [] price.tag = "nan" -> NaN
               [] OTHER -> NaN   \* None: amt * None raises, see optimize_raises

\* rows of one asset class, optimize_portfolio
RECURSIVE optimize_rows(_, _, _, _)
optimize_rows(rows, asset_cls, prices, bkts) ==
    IF rows = << >> THEN bkts
    ELSE optimize_rows(Tail(rows), asset_cls, prices,
                       AddPosition(bkts, OptimizeBucketOf[asset_cls],
                                   BalancedOf[asset_cls],
                                   optimize_val(Head(rows), prices)))

RECURSIVE optimize_buckets(_, _, _)
optimize_buckets(positions, prices, bkts) ==
    IF positions = << >> THEN bkts
    ELSE optimize_buckets(Tail(positions), prices,
                          optimize_rows(Head(positions).rows, Head(positions).cls,
                                        prices, bkts))

\* amt * None is a TypeError; row['ticker'] of a shares row without the key
\* is a KeyError
optimize_raises(positions, prices) ==
    \E row \in SeqToSet(AllRows(positions)) :
        /\ row.units # "usd"
        /\ \/ row.ticker = NoKey
           \/ PriceOf(prices, UpperOf[row.ticker]).tag = "none"

(***************************************************************************)
(* analyze_portfolio_drift                                                 *)
(***************************************************************************)
ZeroRow == [b \in Buckets |-> 0]

DriftResult(kind, calls, level, bkts, total) ==
    [kind |-> kind, oracle_calls |-> calls, risk_level |-> level,
     tgt |-> ZeroRow, buckets |-> bkts, total_val |-> total,
     pct |-> ZeroRow, diff |-> ZeroRow, total_abs_drift |-> 0,
     recommendation |-> "none"]

\* sum of abs(diff) over the buckets of the target row
RECURSIVE SumAbs(_, _)
SumAbs(d, i) ==
    IF i > Len(BucketOrder) THEN 0
    ELSE Abs(d[BucketOrder[i]]) + SumAbs(d, i + 1)

\* variant: the threshold value itself still counts as acceptable
RecommendInclusive(total_abs_drift, total_val) ==
    IF total_abs_drift <= 10 * total_val THEN "acceptable" ELSE "rebalance"

\* "within acceptable range" exactly when total_abs_drift < 10; the drift is a
\* numerator over total_val
Recommend(total_abs_drift, total_val) ==
    IF total_abs_drift < 10 * total_val THEN "acceptable" ELSE "rebalance"

\* the report: pct, diff and total_abs_drift are numerators over total_val
\*   pct[b]  = buckets[b] / total_val * 100
\*   diff[b] = pct[b] - target_pct
DriftReport(level, bkts, total) ==
    LET tgt == TargetRow(target_map_full, level)
        pct == [b \in Buckets |-> 100 * bkts[b].v]
        diff == [b \in Buckets |-> pct[b] - tgt[b] * total.v]
        total_abs_drift == SumAbs(diff, 1)
    IN  [kind |-> "report", oracle_calls |-> 1, risk_level |-> level,
         tgt |-> tgt, buckets |-> bkts, total_val |-> total,
         pct |-> pct, diff |-> diff, total_abs_drift |-> total_abs_drift,
         recommendation |-> Recommend(total_abs_drift, total.v)]

analyze_portfolio_drift(st, mkt, risk_tolerance) ==
    LET risk_level == RiskLevelOf[risk_tolerance]
        ticker_rows == AllRows(st.positions)
        bkts == drift_buckets(st.positions, mkt.prices, EmptyBuckets)
        total_val == SumBuckets(bkts)
    IN  IF risk_level = ParseError
        THEN DriftResult("exception", 0, 0, EmptyBuckets, F(0))
        ELSE IF st.kind # "json"
        THEN DriftResult("missing_data", 0, risk_level, EmptyBuckets, F(0))
        ELSE IF ticker_rows = << >>
        THEN DriftResult("no_positions", 0, risk_level, EmptyBuckets, F(0))
        ELSE IF \E row \in SeqToSet(ticker_rows) : row.ticker = NoKey
        THEN DriftResult("exception", 0, risk_level, EmptyBuckets, F(0))
        ELSE IF mkt.status = "raise"
        THEN DriftResult("exception", 1, risk_level, EmptyBuckets, F(0))
        ELSE IF mkt.status = "empty"
        THEN DriftResult("market_unavailable", 1, risk_level, EmptyBuckets, F(0))
        ELSE IF FIsZero(total_val)
        THEN DriftResult("zero_value", 1, risk_level, bkts, total_val)
        ELSE DriftReport(risk_level, bkts, total_val)

(***************************************************************************)
(* optimize_portfolio                                                      *)
(***************************************************************************)
OptResult(kind, calls, level, bkts, total) ==
    [kind |-> kind, oracle_calls |-> calls, risk_level |-> level,
     target |-> ZeroRow, buckets |-> bkts, total_val |-> total,
     weights |-> ZeroRow, nan |-> FALSE, diff |-> ZeroRow,
     trade_lines |-> << >>, aligned |-> FALSE]

\* the risk string the function works with after the optional store lookup;
\* Len = 0 covers `not risk_tolerance`
NeedsStoredRisk(risk_tolerance) ==
    Len(risk_tolerance) = 0 \/ risk_tolerance = "None"

\* q.get("risk_tolerance", "3 - Moderate")
StoredRisk(st) ==
    IF st.risk_tolerance = NoKey THEN "3 - Moderate" ELSE st.risk_tolerance

\* int(...) inside try / except: risk_level = 3
optimize_risk_level(risk_tolerance) ==
    LET parsed == RiskLevelOf[risk_tolerance]
    IN  IF parsed = ParseError THEN 3 ELSE parsed

\* 10 * (tgt - cur) as the fraction n / total, cur = 100 * v / total
DeltaNum(tgt, v, total) == 10 * (tgt * total - 100 * v)

\* round(tgt - cur, 1) in tenths; `up` resolves an exact decimal tie
RoundTenths(n, total, up) ==
    LET q == n \div total
        r == n % total
    IN  IF 2 * r < total THEN q
        ELSE IF 2 * r > total THEN q + 1
        ELSE IF up THEN q + 1 ELSE q

\* buckets whose rounding is an exact decimal tie
TieBuckets(level, bkts, total) ==
    IF total.nan \/ total.v = 0 THEN {}
    ELSE { b \in Buckets :
            2 * (DeltaNum(TargetRow(target_map, level)[b], bkts[b].v, total.v)
                 % total.v) = total.v }

\* if abs(diff) < 1: continue     (diff in tenths)
Suppressed(diff) == Abs(diff) < 10

\* for bucket, tgt in target.items(): ... trade_lines.append(...)
RECURSIVE TradeLines(_, _, _)
TradeLines(diff, isnan, i) ==
    IF i > Len(BucketOrder) THEN << >>
    ELSE LET b == BucketOrder[i]
         IN  IF isnan
             THEN << [action |-> "Sell", bucket |-> b, nan |-> TRUE, pct |-> 0] >>
                  \o TradeLines(diff, isnan, i + 1)
             ELSE IF Suppressed(diff[b]) THEN TradeLines(diff, isnan, i + 1)
             ELSE << [action |-> IF diff[b] > 0 THEN "Buy" ELSE "Sell",
                      bucket |-> b, nan |-> FALSE, pct |-> Abs(diff[b])] >>
                  \o TradeLines(diff, isnan, i + 1)

\* the plan: weights are numerators over total_val, diff is in tenths of a
\* percent; with a NaN total every weight and every diff is NaN
OptPlan(level, calls, bkts, total, ties) ==
    LET target == TargetRow(target_map, level)
        weights == [b \in Buckets |-> IF total.nan THEN 0 ELSE 100 * bkts[b].v]
        diff == [b \in Buckets |->
                    IF total.nan THEN 0
                    ELSE RoundTenths(DeltaNum(target[b], bkts[b].v, total.v),
                                     total.v, b \in ties)]
        trade_lines == TradeLines(diff, total.nan, 1)
    IN  [kind |-> "plan", oracle_calls |-> calls, risk_level |-> level,
         target |-> target, buckets |-> bkts, total_val |-> total,
         weights |-> weights, nan |-> total.nan, diff |-> diff,
         trade_lines |-> trade_lines, aligned |-> trade_lines = << >>]

\* tickers of the shares rows: the oracle is asked only when there is one
optimize_tickers(positions) ==
    { UpperOf[row.ticker] : row \in { r \in SeqToSet(AllRows(positions)) :
                                        r.units = "shares" /\ r.ticker # NoKey } }

optimize_portfolio(st, mkt, risk_arg, ties) ==
    LET from_store == NeedsStoredRisk(risk_arg)
        risk_tolerance == IF from_store THEN StoredRisk(st) ELSE risk_arg
        risk_level == optimize_risk_level(risk_tolerance)
        tickers == optimize_tickers(st.positions)
        calls == IF tickers = {} THEN 0 ELSE 1
        prices == IF tickers # {} /\ mkt.status = "ok" THEN mkt.prices
                  ELSE [t \in {} |-> PriceAbsent]
        bkts == optimize_buckets(st.positions, prices, EmptyBuckets)
        total_val == SumBuckets(bkts)
    IN  IF from_store /\ st.kind = "no_record"
        THEN OptResult("session_missing", 0, 0, EmptyBuckets, F(0))
        ELSE IF from_store /\ NeedsStoredRisk(risk_tolerance)
        THEN OptResult("risk_missing", 0, 0, EmptyBuckets, F(0))
        ELSE IF st.kind # "json"
        THEN OptResult("missing_data", 0, risk_level, EmptyBuckets, F(0))
        ELSE IF \E row \in SeqToSet(AllRows(st.positions)) :
                    row.units = "shares" /\ row.ticker = NoKey
        THEN OptResult("exception", 0, risk_level, EmptyBuckets, F(0))
        ELSE IF tickers # {} /\ mkt.status = "raise"
        THEN OptResult("exception", 1, risk_level, EmptyBuckets, F(0))
        ELSE IF optimize_raises(st.positions, prices)
        THEN OptResult("exception", calls, risk_level, EmptyBuckets, F(0))
        ELSE IF FIsZero(total_val)
        THEN OptResult("zero_value", calls, risk_level, bkts, total_val)
        ELSE OptPlan(risk_level, calls, bkts, total_val, ties)

(***************************************************************************)
(* fetch_portfolio_data                                                    *)
(***************************************************************************)
FetchResult(kind, calls, used_holdings, tickers, named, total) ==
    [kind |-> kind, oracle_calls |-> calls, used_holdings |-> used_holdings,
     tickers |-> tickers, named |-> named, total_value |-> total]

\* ticker = row.get("ticker", "").upper(), then the asset-class aliases
fetch_ticker(row) ==
    LET ticker == UpperOf[IF row.ticker = NoKey THEN "" ELSE row.ticker]
    IN  IF ticker = "REAL ESTATE (REITS)" \/ ticker = "REITS" THEN "VNQ"
        ELSE IF ticker = "US EQUITY" \/ ticker = "US STOCKS" THEN "SPY"
        ELSE ticker

\* tickers.append(ticker) for every row with a ticker
RECURSIVE fetch_tickers(_)
fetch_tickers(rows) ==
    IF rows = << >> THEN << >>
    ELSE IF fetch_ticker(Head(rows)) = "" THEN fetch_tickers(Tail(rows))
    ELSE << fetch_ticker(Head(rows)) >> \o fetch_tickers(Tail(rows))

\* shares_lookup[ticker]: + amount for a shares row, - amount for a usd row
RECURSIVE shares_lookup(_, _)
shares_lookup(rows, ticker) ==
    IF rows = << >> THEN 0
    ELSE (IF fetch_ticker(Head(rows)) # ticker THEN 0
          ELSE IF Head(rows).units = "shares" THEN Head(rows).amount
          ELSE 0 - Head(rows).amount)
         + shares_lookup(Tail(rows), ticker)

\* list(dict.fromkeys(tickers))
RECURSIVE Dedupe(_, _)
Dedupe(tickers, seen) ==
    IF tickers = << >> THEN << >>
    ELSE IF Head(tickers) \in seen THEN Dedupe(Tail(tickers), seen)
    ELSE << Head(tickers) >> \o Dedupe(Tail(tickers), seen \cup {Head(tickers)})

\* the tickers guessed from the free-text holdings when the rows name none
LegacyTickers(holdings) ==
    LET h == lower(holdings)
    IN  IF Contains(h, "us equity") /\ Contains(h, "s&p 500")
        THEN << "SPY", "VOO", "IVV" >>
        ELSE IF Contains(h, "technology focused") \/ Contains(h, "nasdaq")
                \/ Contains(h, "tech stocks")
        THEN << "QQQ", "XLK", "VGT" >>
        ELSE IF Contains(h, "diversified us market") \/ Contains(h, "total stock market")
        THEN << "VTI", "ITOT", "SPTM" >>
        ELSE IF Contains(h, "international equity") \/ Contains(h, "developed markets")
        THEN << "VEA", "IEFA", "SCHF" >>
        ELSE IF Contains(h, "emerging markets")
        THEN << "VWO", "IEMG", "SCHE" >>
        ELSE IF Contains(h, "bond portfolio") \/ Contains(h, "government")
                \/ Contains(h, "corporate")
        THEN << "BND", "AGG", "TLT" >>
        ELSE IF Contains(h, "balanced portfolio")
                \/ (Contains(h, "stocks") /\ Contains(h, "bonds"))
        THEN << "VTI", "BND", "VXUS" >>
        ELSE IF Contains(h, "real estate") \/ Contains(h, "reits")
        THEN << "VNQ", "SCHH", "IYR" >>
        ELSE IF Contains(h, "mixed portfolio") \/ Contains(h, "multiple asset classes")
        THEN << "VTI", "BND", "VEA", "VWO" >>
        ELSE << "SPY", "QQQ", "IWM" >>

LegacyTickersOf == [h \in Holdings |-> LegacyTickers(h)]

\* variant: a None entry passes as a price
UnresolvableNoneOk(prices, t) == PriceOf(prices, t).tag \notin {"num", "none"}

\* t not in price_dict or price_dict[t] is None or price_dict[t] is NaN
Unresolvable(prices, t) == PriceOf(prices, t).tag # "num"

\* invalid_tickers, in the order of tickers
InvalidTickers(tickers, prices) ==
    SelectSeq(tickers, LAMBDA t : Unresolvable(prices, t))

\* the per-ticker lines: shares mode when the lookup is >= 0, fixed USD otherwise
RECURSIVE TickerValue(_, _, _)
TickerValue(tickers, rows, prices) ==
    IF tickers = << >> THEN 0
    ELSE LET shares_or_usd == shares_lookup(rows, Head(tickers))
             price == PriceOf(prices, Head(tickers))
         IN  (IF price.tag # "num" THEN 0
              ELSE IF shares_or_usd >= 0 THEN shares_or_usd * price.v
              ELSE 0 - shares_or_usd)
             + TickerValue(Tail(tickers), rows, prices)

\* the "self-reported" lines: every usd row with a positive amount
RECURSIVE UsdRowsValue(_)
UsdRowsValue(rows) ==
    IF rows = << >> THEN 0
    ELSE (IF Head(rows).units = "usd" /\ Head(rows).amount > 0
          THEN Head(rows).amount ELSE 0)
         + UsdRowsValue(Tail(rows))

fetch_portfolio_data(st, mkt, holdings) ==
    LET structured_positions == IF st.kind = "json" THEN st.positions ELSE << >>
        rows == AllRows(structured_positions)
        row_tickers == Dedupe(fetch_tickers(rows), {})
        used_holdings == row_tickers = << >>
        tickers == IF used_holdings THEN LegacyTickersOf[holdings] ELSE row_tickers
        invalid_tickers == InvalidTickers(tickers, mkt.prices)
    IN  IF structured_positions = << >>
        THEN FetchResult("missing_data", 0, FALSE, << >>, << >>, 0)
        ELSE IF mkt.status = "empty"
        THEN FetchResult("oracle_empty", 1, used_holdings, tickers, tickers, 0)
        ELSE IF mkt.status = "raise"
        THEN FetchResult("oracle_error", 1, used_holdings, tickers, tickers, 0)
        ELSE IF invalid_tickers # << >>
        THEN FetchResult("pricing_error", 1, used_holdings, tickers, invalid_tickers, 0)
        ELSE FetchResult("valuation", 1, used_holdings, tickers, << >>,
                         TickerValue(tickers, rows, mkt.prices) + UsdRowsValue(rows))

(***************************************************************************)
(* Inputs: stored questionnaires, oracle answers and risk strings.         *)
(***************************************************************************)
\* rows per asset class in the small portfolios
MaxRows == 2

PRow(ticker, amount, units) == [ticker |-> ticker, amount |-> amount, units |-> units]

Cls(label, rows) == [cls |-> label, rows |-> rows]

\* rows of the small portfolios: shares of a priced and of an unknown ticker,
\* self-reported dollar amounts with an empty or a missing ticker, a zero row
RowChoices ==
    { PRow("SPY", 10, "shares"), PRow("zzzz", 4, "shares"),
      PRow("", 10000, "usd"), PRow(NoKey, 10000, "usd"), PRow("SPY", 0, "usd") }

RowSeqs == UNION { [1..k -> RowChoices] : k \in 0..MaxRows }

\* one asset class with up to MaxRows rows, alone or followed by a cash class
MixedPositions ==
    { << Cls(label, rows) >> \o rest :
        label \in Labels, rows \in RowSeqs,
        rest \in { << >>, << Cls("Cash", << PRow("", 5000, "usd") >>) >> } }

\* six asset classes, one dollar row each (the questionnaire's holdings table)
AllocPositions ==
    { << Cls("US Equity", << PRow("SPY", us, "usd") >>),
         Cls("International Equity", << PRow("VEA", intl, "usd") >>),
         Cls("Emerging Markets", << PRow("VWO", 0, "usd") >>),
         Cls(bond_label, << PRow("BND", bonds, "usd") >>),
         Cls("Real Estate (REITs)", << PRow("reits", re, "usd") >>),
         Cls("Cash", << PRow("", cash, "usd") >>) >> :
        us \in {20, 25, 50}, intl \in {0, 5}, bonds \in {30, 50, 55},
        re \in {0, 5}, cash \in {15, 20}, bond_label \in {"Bond Portfolio"} }

Market(status, prices) == [status |-> status, prices |-> prices]

NoPrices == [t \in MarketTickers |-> PriceAbsent]

\* the oracle answers: a price map in which each ticker is priced, NaN, None
\* or missing; an empty frame; an exception
Markets ==
    { Market("ok", [t \in MarketTickers |-> IF t = "SPY" THEN spy ELSE zzzz]) :
        spy \in {Priced(500), PriceNaN},
        zzzz \in {Priced(3), PriceNaN, PriceNone, PriceAbsent} }
    \cup { Market("empty", NoPrices), Market("raise", NoPrices) }

\* an oracle that prices everything it is asked for
MarketAllPriced ==
    Market("ok", [t \in {"SPY", "VEA", "VWO", "BND", "VNQ", "REITS"} |-> Priced(5)])

Input(st, mkt, risk) == [store |-> st, market |-> mkt, risk_tolerance |-> risk]

AllocInputs ==
    { Input(Store("json", p, "5 - Very Aggressive"), MarketAllPriced, r) :
        p \in AllocPositions, r \in RiskStrings }

MixedInputs ==
    { Input(Store("json", p, "5 - Very Aggressive"), m, r) :
        p \in MixedPositions, m \in Markets, r \in {"3 - Moderate"} }

\* no session record, no positions field, an empty string, an empty mapping
MissingStores ==
    { Store("no_record", << >>, NoKey) }
    \cup { Store(k, << >>, sr) : k \in {"no_field", "empty_string", "json"},
                                 sr \in StoredRisks }

MissingInputs ==
    { Input(st, m, r) : st \in MissingStores, r \in RiskStrings,
                        m \in {MarketAllPriced, Market("empty", NoPrices),
                                Market("raise", NoPrices)} }

(***************************************************************************)
(* Router answers.  The text of an answer is a sequence of tokens (the     *)
(* whitespace between them is what str.strip() removes); json.loads is a   *)
(* parser over the tokens.                                                  *)
(***************************************************************************)
Tok(kind, text) == [kind |-> kind, text |-> text]

\* one of { } [ ] : ,
P(text) == Tok("punct", text)

\* a JSON string literal
S(text) == Tok("str", text)

\* a word of prose; Tok("lit", ...) is null or a number, Tok("tag", ...) the
\* language tag after a fence
Word(text) == Tok("word", text)

\* the three backquotes of a code fence
Fence == Tok("fence", "<fence>")

\* Python values after json.loads
JStr(s) == [t |-> "str", s |-> s]

JNone == [t |-> "None"]

\* a list is [t |-> "list", items], a dict [t |-> "dict", pairs] with its
\* key/value pairs in insertion order, a number [t |-> "num", s]

ParseResult(ok, val, rest) == [ok |-> ok, val |-> val, rest |-> rest]

ParseFail == ParseResult(FALSE, JNone, << >>)

\* the JSON grammar: value, then the tails of a list and of an object
RECURSIVE ParseValue(_), ParseItems(_, _), ParseMembers(_, _)
ParseValue(toks) ==
    IF toks = << >> THEN ParseFail
    ELSE LET h == Head(toks)
             r == Tail(toks)
         IN  IF h.kind = "str" THEN ParseResult(TRUE, JStr(h.text), r)
             ELSE IF h.kind = "lit"
             THEN ParseResult(TRUE, IF h.text = "null" THEN JNone ELSE [t |-> "num", s |-> h.text], r)
             ELSE IF h = P("[")
             THEN IF r # << >> /\ Head(r) = P("]")
                  THEN ParseResult(TRUE, [t |-> "list", items |-> << >>], Tail(r))
                  ELSE ParseItems(r, << >>)
             ELSE IF h = P("{")
             THEN IF r # << >> /\ Head(r) = P("}")
                  THEN ParseResult(TRUE, [t |-> "dict", pairs |-> << >>], Tail(r))
                  ELSE ParseMembers(r, << >>)
             ELSE ParseFail

\* value ("," value)* "]"
ParseItems(toks, items) ==
    LET v == ParseValue(toks)
    IN  IF ~v.ok \/ v.rest = << >> THEN ParseFail
        ELSE IF Head(v.rest) = P("]")
        THEN ParseResult(TRUE, [t |-> "list", items |-> Append(items, v.val)], Tail(v.rest))
        ELSE IF Head(v.rest) = P(",")
        THEN ParseItems(Tail(v.rest), Append(items, v.val))
        ELSE ParseFail

\* string ":" value ("," string ":" value)* "}"
ParseMembers(toks, pairs) ==
    IF Len(toks) < 3 \/ toks[1].kind # "str" \/ toks[2] # P(":") THEN ParseFail
    ELSE LET v == ParseValue(SubSeq(toks, 3, Len(toks)))
             more == Append(pairs, [k |-> toks[1].text, v |-> v.val])
         IN  IF ~v.ok \/ v.rest = << >> THEN ParseFail
             ELSE IF Head(v.rest) = P("}")
             THEN ParseResult(TRUE, [t |-> "dict", pairs |-> more], Tail(v.rest))
             ELSE IF Head(v.rest) = P(",")
             THEN ParseMembers(Tail(v.rest), more)
             ELSE ParseFail

\* json.loads: the whole text is one JSON value, else JSONDecodeError
json_loads(toks) ==
    LET v == ParseValue(toks)
    IN  IF v.ok /\ v.rest = << >> THEN v ELSE ParseFail

\* key in d
HasKey(d, key) == \E i \in 1..Len(d.pairs) : d.pairs[i].k = key

\* d.get(key, default): the last pair with that key wins
DictGet(d, key, default) ==
    IF HasKey(d, key)
    THEN d.pairs[CHOOSE i \in 1..Len(d.pairs) :
                    /\ d.pairs[i].k = key
                    /\ \A j \in (i + 1)..Len(d.pairs) : d.pairs[j].k # key].v
    ELSE default

\* str(x) for the values that occur as intents and options
PyStr(v) ==
    IF v.t \in {"str", "num"} THEN v.s
    ELSE IF v.t = "None" THEN "None"
    ELSE "<repr>"

\* bool(x)
Truthy(v) ==
    IF v.t = "str" THEN v.s # ""
    ELSE IF v.t = "num" THEN v.s # "0"
    ELSE IF v.t = "list" THEN v.items # << >>
    ELSE IF v.t = "dict" THEN v.pairs # << >>
    ELSE FALSE

\* [str(i) for i in items]
StrList(items) == [i \in 1..Len(items) |-> PyStr(items[i])]

\* re.search(r"\{.*\}", s, re.DOTALL): from the first { to the last }
\* the positions of a token in a text
Positions(toks, tok) == { i \in 1..Len(toks) : toks[i] = tok }

\* variant: a non-greedy match, from the first { to the first } after it
BraceBlockShortest(toks) ==
    LET opens == Positions(toks, P("{"))
        i == CHOOSE k \in opens : \A o \in opens : k <= o
        closes == { c \in Positions(toks, P("}")) : c > i }
        j == CHOOSE k \in closes : \A c \in closes : k <= c
    IN  IF opens # {} /\ closes # {} THEN SubSeq(toks, i, j) ELSE << >>

BraceBlock(toks) ==
    LET opens == Positions(toks, P("{"))
        i == CHOOSE k \in opens : \A o \in opens : k <= o
        closes == { c \in Positions(toks, P("}")) : c > i }
        j == CHOOSE k \in closes : \A c \in closes : k >= c
    IN  IF opens # {} /\ closes # {} THEN SubSeq(toks, i, j) ELSE << >>

(***************************************************************************)
(* create_agent_stream: intent routing                                     *)
(***************************************************************************)
\* what agents['router'].run gives: no router agent at all, an exception, a
\* response whose content is not a string, or a text
RouterOut(kind, toks) == [kind |-> kind, toks |-> toks]

\* router_str[3:-3] when the text starts and ends with a code fence
StripFences(toks) ==
    IF toks # << >> /\ toks[1] = Fence /\ toks[Len(toks)] = Fence
    THEN SubSeq(toks, 2, Len(toks) - 1)
    ELSE toks

\* router_str[4:] when the text starts with json or JSON
StripTag(toks) ==
    IF toks # << >> /\ toks[1] \in {Tok("tag", "json"), Tok("tag", "JSON")}
    THEN Tail(toks)
    ELSE toks

ClarifyData == [t |-> "dict", pairs |-> << [k |-> "intent", v |-> JStr("clarify")] >>]

\* router_data of the streaming path: direct parse, else the {...} block,
\* else (and on any exception) {"intent": "clarify"}
router_data(out) ==
    LET router_str == StripTag(StripFences(out.toks))
        direct == json_loads(router_str)
        json_str == BraceBlock(router_str)
        extracted == json_loads(json_str)
    IN  IF out.kind # "text" THEN ClarifyData
        ELSE IF direct.ok THEN direct.val
        ELSE IF json_str # << >> /\ extracted.ok THEN extracted.val
        ELSE ClarifyData

Decision(intent, options, intents) ==
    [router_intent |-> intent, router_options |-> options, intents_list |-> intents]

\* router_intent, router_options and intents_list after the routing block
RouterDecision(out) ==
    LET data == router_data(out)
        raw_options == DictGet(data, "options", [t |-> "list", items |-> << >>])
        intents == DictGet(data, "intents", JNone)
    IN  IF out.kind = "absent" THEN Decision(JNone, << >>, << >>)
        ELSE IF out.kind = "raise" THEN Decision(JStr("clarify"), << >>, << >>)
        ELSE IF data.t # "dict" THEN Decision(JStr("clarify"), << >>, << >>)
        ELSE Decision(
            DictGet(data, "intent", JNone),
            IF raw_options.t = "list" THEN StrList(raw_options.items) ELSE << >>,
            IF HasKey(data, "intents") /\ intents.t = "list"
            THEN StrList(intents.items)
            ELSE IF HasKey(data, "intent")
                    /\ DictGet(data, "intent", JNone) # JStr("clarify")
            THEN << PyStr(DictGet(data, "intent", JNone)) >>
            ELSE << >>)

(***************************************************************************)
(* create_agent_stream: the statements after routing, as the sequence of   *)
(* events to yield, agent calls and store reads that the generator still   *)
(* has to execute.                                                          *)
(***************************************************************************)
Workers == {"data_fetch", "analysis", "optimization", "explainability"}

\* create_stream_message(msg_type, agent, content); content is kept as a label
Event(type, agent, content) == [type |-> type, agent |-> agent, content |-> content]

\* {'type': 'stream_end'}
StreamEnd == Event("stream_end", NoKey, "")

\* {'type': 'error', 'content': ...} of the outer except
StreamError == Event("error", NoKey, "exception")

Yield(type, agent, content) ==
    [op |-> "yield", agent |-> agent, event |-> Event(type, agent, content)]

\* agents[agent].run(...)
Call(agent) == [op |-> "call", agent |-> agent, event |-> StreamEnd]

\* the read of questionnaire_responses in the optimize branch
ReadQuestionnaireOp == [op |-> "read", agent |-> NoKey, event |-> StreamEnd]

Start(agent) == Yield("agent_start", agent, "narration")

Thinking(agent) == Yield("agent_thinking", agent, "narration")

Response(agent) == Yield("agent_response", agent, "result")

Result(agent) == Yield("agent_result", agent, "result")

\* the statements of a block and whether the block ended in `return`
Block(ops, returned) == [ops |-> ops, returned |-> returned]

\* variant: the agent is run and its result sent without any narration
run_single_agent_silent(agent_key) ==
    << Call(agent_key), Result(agent_key) >>

\* _run_single_agent (every caller passes two think_steps)
run_single_agent(agent_key) ==
    << Start(agent_key), Thinking(agent_key), Thinking(agent_key),
       Call(agent_key), Result(agent_key) >>

\* agent_start, run, agent_response
StartCallRespond(agent) == << Start(agent), Call(agent), Response(agent) >>

FullAnalysisSteps ==
    StartCallRespond("data_fetch") \o StartCallRespond("analysis")
    \o StartCallRespond("optimization") \o StartCallRespond("explainability")

\* the branch for optimize_portfolio: the questionnaire is read after the data
\* refresh; both failure branches yield an error event and return
OptimizeBranch(questionnaire) ==
    LET refresh == << Start("data_fetch"), Thinking("data_fetch"),
                      Call("data_fetch"), ReadQuestionnaireOp >>
    IN  IF questionnaire = "raise"
        THEN Block(refresh \o << Yield("error", "optimization", "questionnaire_error") >>, TRUE)
        ELSE IF questionnaire = "incomplete"
        THEN Block(refresh \o << Yield("error", "optimization", "questionnaire_missing") >>, TRUE)
        ELSE Block(refresh \o StartCallRespond("optimization")
                   \o StartCallRespond("explainability"), FALSE)

\* variant: clarify is not among the intents that end the turn
IsNoIntentWithoutClarify(router_intent) ==
    router_intent \in {JStr("unknown"), JNone}

IsNoIntent(router_intent) ==
    router_intent \in {JStr("clarify"), JStr("unknown"), JNone}

\* the first if / elif / else over router_intent
RouterDispatch(router_intent, optimize_phrase, questionnaire) ==
    IF Truthy(router_intent) /\ ~IsNoIntent(router_intent)
    THEN IF router_intent = JStr("fetch_data")
         THEN Block(<< Start("data_fetch"), Thinking("data_fetch"),
                       Call("data_fetch"), Response("data_fetch") >>, FALSE)
         ELSE IF router_intent = JStr("analyze_drift")
         THEN Block(<< Start("data_fetch"), Call("data_fetch") >>
                    \o StartCallRespond("analysis"), FALSE)
         ELSE IF router_intent = JStr("optimize_portfolio") \/ optimize_phrase
         THEN OptimizeBranch(questionnaire)
         ELSE IF router_intent = JStr("explain_recommendations")
         THEN Block(StartCallRespond("explainability"), FALSE)
         ELSE IF router_intent = JStr("full_analysis")
         THEN Block(FullAnalysisSteps, FALSE)
         ELSE Block(<< >>, FALSE)
    ELSE IF router_intent = JStr("clarify")
    THEN Block(<< Yield("agent_response", "router", "menu") >>, FALSE)
    ELSE Block(<< Yield("agent_response", "router", "full_analysis_notice") >>
               \o FullAnalysisSteps, FALSE)

\* the clarification block: menu, agent_complete, stream_end, return
ClarifyBlock ==
    << Yield("agent_start", "orchestrator", "menu"),
       Yield("agent_complete", "orchestrator", "complete"),
       [op |-> "yield", agent |-> NoKey, event |-> StreamEnd] >>

Finish ==
    << Yield("agent_complete", "orchestrator", "complete"),
       [op |-> "yield", agent |-> NoKey, event |-> StreamEnd] >>

\* variant: the loop runs each listed step and never refreshes the data first
RECURSIVE IntentSequenceNoRefresh(_, _)
IntentSequenceNoRefresh(intents, has_data) ==
    IF intents = << >> THEN << >>
    ELSE LET intent_item == Head(intents)
         IN  (IF intent_item = "fetch_data" THEN run_single_agent("data_fetch")
              ELSE IF intent_item = "analyze_drift" THEN run_single_agent("analysis")
              ELSE IF intent_item = "optimize_portfolio" THEN run_single_agent("optimization")
              ELSE IF intent_item = "explain_recommendations" THEN run_single_agent("explainability")
              ELSE << >>)
             \o IntentSequenceNoRefresh(Tail(intents), has_data)

\* the loop over intents_list with has_data
RECURSIVE IntentSequence(_, _)
IntentSequence(intents, has_data) ==
    IF intents = << >> THEN << >>
    ELSE LET intent_item == Head(intents)
             refresh == intent_item \in {"analyze_drift", "optimize_portfolio"} /\ ~has_data
             step == IF intent_item = "fetch_data" THEN run_single_agent("data_fetch")
                     ELSE IF intent_item = "analyze_drift" THEN run_single_agent("analysis")
                     ELSE IF intent_item = "optimize_portfolio" THEN run_single_agent("optimization")
                     ELSE IF intent_item = "explain_recommendations" THEN run_single_agent("explainability")
                     ELSE << >>
         IN  (IF refresh THEN run_single_agent("data_fetch") ELSE << >>)
             \o step
             \o IntentSequence(Tail(intents),
                               has_data \/ refresh \/ intent_item = "fetch_data")

InList(x, list) == \E i \in 1..Len(list) : list[i] = x

\* the block for one routed intent: refresh, the agent, agent_complete, stream_end
SingleIntentBlock(router_intent) ==
    (IF router_intent # JStr("fetch_data") THEN run_single_agent("data_fetch") ELSE << >>)
    \o (IF router_intent = JStr("fetch_data") THEN run_single_agent("data_fetch")
        ELSE IF router_intent = JStr("analyze_drift") THEN run_single_agent("analysis")
        ELSE IF router_intent = JStr("optimize_portfolio") THEN run_single_agent("optimization")
        ELSE run_single_agent("explainability"))
    \o Finish

full_workflow_triggers ==
    {"start", "begin", "analysis", "full", "complete", "comprehensive",
     "go ahead", "next step", "continue", "proceed", "do next",
     "diversify", "improve", "better performance"}

analysis_triggers ==
    {"drift", "analyze", "allocation", "target", "balance", "how am i doing",
     "performance", "review", "check", "deviation", "off track"}

optimization_triggers ==
    {"optimize", "rebalance", "improve", "better", "recommendations",
     "changes", "adjust", "modify", "diversify", "portfolio optimization"}

explanation_triggers ==
    {"explain", "why", "reason", "rationale", "understand", "meaning",
     "justification", "logic", "breakdown"}

AnyIn(triggers, message_lower) == \E trigger \in triggers : Contains(message_lower, trigger)

Messages ==
    {"Hello", "Optimize my allocation", "Start my portfolio analysis",
     "Why these trades?", "Show me my data"}

\* which branch of the legacy keyword routing each message takes
LegacyWorkflowOf ==
    [user_message \in Messages |->
    LET message_lower == lower(user_message)
    IN  IF AnyIn(full_workflow_triggers, message_lower)
           \/ AnyIn(analysis_triggers \cup optimization_triggers, message_lower)
        THEN "full"
        ELSE IF AnyIn(explanation_triggers, message_lower) THEN "explanation"
        ELSE IF Contains(message_lower, "data") \/ Contains(message_lower, "show me")
                \/ Contains(message_lower, "current")
        THEN "data"
        ELSE "default"]

\* 'optimize my allocation' in message_lower
HasOptimizePhraseOf ==
    [user_message \in Messages |->
        Contains(lower(user_message), "optimize my allocation")]

\* one step of the full multi-agent workflow of the legacy routing
LegacyStep(agent, thoughts) ==
    << Thinking("orchestrator"), Start(agent) >>
    \o [i \in 1..thoughts |-> Thinking(agent)]
    \o << Call(agent), Result(agent) >>

\* the legacy keyword routing, up to the final stream_end
LegacyRouting(user_message) ==
    LET workflow == LegacyWorkflowOf[user_message]
    IN  (IF workflow = "full"
         THEN << Start("orchestrator") >>
              \o LegacyStep("data_fetch", 2) \o LegacyStep("analysis", 3)
              \o LegacyStep("optimization", 3) \o LegacyStep("explainability", 3)
              \o << Yield("agent_complete", "orchestrator", "complete") >>
         ELSE IF workflow = "explanation"
         THEN << Start("explainability"), Call("explainability"), Result("explainability") >>
         ELSE IF workflow = "data"
         THEN << Start("data_fetch"), Thinking("data_fetch"), Thinking("data_fetch"),
                 Call("data_fetch"), Result("data_fetch") >>
         ELSE << Thinking("orchestrator"), Start("orchestrator"), Thinking("orchestrator"),
                 Start("data_fetch"), Call("data_fetch"), Result("data_fetch"),
                 Thinking("orchestrator") >>)
        \o << [op |-> "yield", agent |-> NoKey, event |-> StreamEnd] >>

\* variant: the clarification block does not return, and the turn goes on to
\* the second clarification branch behind the single-intent block
AfterDispatchWithoutReturn(decision, user_message) ==
    LET router_intent == decision.router_intent
        intents_list == decision.intents_list
    IN  IF IsNoIntent(router_intent) /\ intents_list = << >>
        THEN ClarifyBlock \o ClarifyBlock
        ELSE IF IsNoIntent(router_intent) THEN ClarifyBlock
        ELSE IF intents_list # << >> /\ ~InList("full_analysis", intents_list)
        THEN IntentSequence(intents_list, FALSE) \o Finish
        ELSE IF intents_list # << >> THEN LegacyRouting(user_message)
        ELSE IF router_intent \in {JStr("fetch_data"), JStr("analyze_drift"),
                                   JStr("optimize_portfolio"),
                                   JStr("explain_recommendations")}
        THEN SingleIntentBlock(router_intent)
        ELSE LegacyRouting(user_message)

\* everything after the routing block, for one decision of the router
AfterDispatch(decision, user_message) ==
    LET router_intent == decision.router_intent
        intents_list == decision.intents_list
    IN  IF IsNoIntent(router_intent) THEN ClarifyBlock
        ELSE IF intents_list # << >> /\ ~InList("full_analysis", intents_list)
        THEN IntentSequence(intents_list, FALSE) \o Finish
        ELSE IF intents_list # << >> THEN LegacyRouting(user_message)
        ELSE IF router_intent \in {JStr("fetch_data"), JStr("analyze_drift"),
                                   JStr("optimize_portfolio"),
                                   JStr("explain_recommendations")}
        THEN SingleIntentBlock(router_intent)
        ELSE LegacyRouting(user_message)

\* the statements of the turn after the routing block
Statements(decision, user_message, questionnaire) ==
    LET first == RouterDispatch(decision.router_intent,
                                HasOptimizePhraseOf[user_message], questionnaire)
    IN  IF first.returned THEN first.ops
        ELSE first.ops \o AfterDispatch(decision, user_message)

(***************************************************************************)
(* Inputs of a chat turn: router answers, user messages, questionnaire.    *)
(***************************************************************************)
\* intents in one list of a multi-intent answer
MaxIntents == 2

\* the text of a JSON object around its members
Obj(toks) == << P("{") >> \o toks \o << P("}") >>

\* the text of one member of an object
Pair(key, value) == << S(key), P(":") >> \o value

\* the text of a JSON list of strings
RECURSIVE Strs(_, _)
Strs(strings, open) ==
    IF strings = << >> THEN (IF open THEN << P("[") >> ELSE << >>) \o << P("]") >>
    ELSE (IF open THEN << P("[") >> ELSE << P(",") >>)
         \o << S(Head(strings)) >> \o Strs(Tail(strings), FALSE)

IntentOnly(intent) == Obj(Pair("intent", << S(intent) >>))

IntentsOnly(intents) == Obj(Pair("intents", Strs(intents, TRUE)))

IntentAndIntents(intent, intents) ==
    Obj(Pair("intent", << S(intent) >>) \o << P(",") >>
        \o Pair("intents", Strs(intents, TRUE)))

\* the lists of several intents, none of them full_analysis
IntentLists ==
    UNION { [1..n -> {"fetch_data", "analyze_drift", "optimize_portfolio",
                      "explain_recommendations"}] : n \in 2..MaxIntents }

\* well-formed answers; three of the lists name full_analysis among others
ObjectTexts ==
    LET full_lists == { << "analyze_drift", "full_analysis" >>,
                        << "full_analysis", "fetch_data" >>,
                        << "fetch_data", "full_analysis" >> }
        options == Pair("options", Strs(<< "Show my portfolio data" >>, TRUE))
    IN  { IntentOnly(i) :
            i \in {"fetch_data", "analyze_drift", "optimize_portfolio",
                   "explain_recommendations", "full_analysis",
                   "clarify", "unknown", "rebalance_now", ""} }
        \cup { IntentsOnly(l) : l \in IntentLists \cup full_lists }
        \cup { IntentAndIntents(l[1], l) : l \in IntentLists \cup full_lists }
        \cup { IntentAndIntents(i, << >>) :
                i \in {"fetch_data", "explain_recommendations", "rebalance_now"} }
        \cup { IntentAndIntents("clarify", << "fetch_data" >>),
               Obj(Pair("intent", << S("clarify") >>) \o << P(",") >> \o options),
               Obj(options),
               Obj(Pair("intents", << S("fetch_data") >>)),
               Obj(Pair("intent", << Tok("lit", "null") >>)),
               Obj(Pair("intent", << Tok("lit", "5") >>)),
               Obj(<< >>) }

\* answers wrapped in fences, tags or prose, and answers that are no object
WrappedTexts ==
    LET obj == IntentOnly("analyze_drift")
    IN  { << Fence, Tok("tag", "json") >> \o obj \o << Fence >>,
          << Fence >> \o obj \o << Fence >>,
          << Tok("tag", "JSON") >> \o obj,
          << Tok("tag", "Json") >> \o obj,
          << Fence, Tok("tag", "json") >> \o obj,
          << Word("Sure"), Word("here") >> \o obj \o << Word("done") >>,
          obj \o << Word("or") >> \o IntentOnly("fetch_data"),
          << Word("I"), Word("cannot"), Word("tell") >>,
          << >>,
          << Fence >>,
          << Fence, Word("unsure"), Fence >>,
          Strs(<< "analyze_drift" >>, TRUE),
          << Tok("lit", "null") >>,
          << S("analyze_drift") >>,
          << P("{"), S("intent"), P(":"), S("analyze_drift") >>,
          << Word("use"), P("{"), Word("intent"), P("}") >>,
          << P("}"), Word("then"), P("{") >> }

RouterOutputs ==
    { RouterOut("text", toks) : toks \in ObjectTexts \cup WrappedTexts }
    \cup { RouterOut("absent", << >>), RouterOut("raise", << >>),
           RouterOut("bad_content", << Word("None") >>) }

\* the stored questionnaire as the optimize branch sees it: all three fields
\* present, one of them missing or empty, or the read raising
Questionnaires == {"complete", "incomplete", "raise"}

(***************************************************************************)
(* agent_chat (POST /agent/chat)                                           *)
(***************************************************************************)
\* intent_flag: the "intent" of the {...} block found in str(router_raw);
\* None when the router call or the parsing raises, or when there is no block
intent_flag(out) ==
    LET m == BraceBlock(out.toks)
        router_parsed == json_loads(m)
    IN  IF out.kind = "raise" THEN JNone
        ELSE IF m = << >> THEN JNone
        ELSE IF ~router_parsed.ok THEN JNone
        ELSE DictGet(router_parsed.val, "intent", JNone)

\* the agent a request is handed to, "" when none is run
chat_agent(flag) ==
    IF flag = JStr("fetch_data") THEN "data_fetch"
    ELSE IF flag = JStr("analyze_drift") THEN "analysis"
    ELSE IF flag = JStr("optimize_portfolio") THEN "optimization"
    ELSE IF flag = JStr("explain_recommendations") THEN "explainability"
    ELSE IF flag = JStr("full_analysis") THEN "orchestrator"
    ELSE IF flag = JStr("clarify") THEN ""
    ELSE "orchestrator"

\* what the handler gives back: the kind of outcome, the kind of response text,
\* the agents run and the chat messages handed to save_chat_message
ChatResult(kind, response, agents, saved) ==
    [kind |-> kind, response |-> response, agents |-> agents, saved |-> saved]

agent_chat(request, session_found, out, agent_raises) ==
    LET flag == intent_flag(out)
        agent == chat_agent(flag)
        response == IF agent = "" THEN "menu"
                    ELSE IF ~agent_raises THEN "agent_result"
                    ELSE IF flag \in {JStr("fetch_data"), JStr("analyze_drift"),
                                      JStr("optimize_portfolio"),
                                      JStr("explain_recommendations"),
                                      JStr("full_analysis")}
                    THEN "agent_trouble"
                    ELSE "welcome"
    IN  IF request \in {"not_json", "no_session_id"}
        THEN ChatResult("exception", "", << >>, << >>)
        ELSE IF request = "no_user_message"
        THEN ChatResult("response", "technical_difficulties", << >>, << "system" >>)
        ELSE IF ~session_found
        THEN ChatResult("response", "session_not_found", << >>, << "user" >>)
        ELSE ChatResult("response", response,
                        << "router" >> \o (IF agent = "" THEN << >> ELSE << agent >>),
                        << "user", "agent" >>)

Requests == {"ok", "not_json", "no_session_id", "no_user_message"}

\* router_agent is a module global of app.py: it is always there
ChatRouterOutputs == RouterOutputs \ {RouterOut("absent", << >>)}

(***************************************************************************)
(* The portfolio_sessions table and agent_intake_bulk                      *)
(* (POST /agent/intake_bulk).  sessions holds the rows of the table that   *)
(* carry the session id of the request, in insertion order.  Each store    *)
(* call either completes or raises; the helpers catch what it raises.      *)
(***************************************************************************)
SessionRow(status, questionnaire_responses) ==
    [status |-> status, questionnaire_responses |-> questionnaire_responses]

\* the rows found, << >> for {}: .single() raises unless exactly one row matches
get_session(rows, raises) ==
    IF raises \/ Len(rows) # 1 THEN << >> ELSE rows

\* insert of a fresh row; the table after the call
create_new_session(rows, raises) ==
    IF raises THEN rows
    ELSE Append(rows, SessionRow("questionnaire_started", "{}"))

\* update ... eq(session_id): every matching row is rewritten, and a call
\* that matches no row completes as well; ok is the value returned
update_session_responses(rows, responses, raises) ==
    [ok |-> ~raises,
     rows |-> IF raises THEN rows
              ELSE [i \in DOMAIN rows |->
                        SessionRow("questionnaire_completed", responses)]]

\* what a questionnaire endpoint did: the endpoint called ("none" before any
\* call), the success flag of its answer, the responses it was given, the
\* lookup's answer, whether create_new_session was called, and the table after
IntakeResult(endpoint, success, responses, found, created, rows) ==
    [endpoint |-> endpoint, success |-> success, responses |-> responses,
     found |-> found, created |-> created, rows |-> rows]

agent_intake_bulk(body, responses, rows, lookup_raises, insert_raises, update_raises) ==
    LET found == get_session(rows, lookup_raises)
        after_create == IF found = << >> THEN create_new_session(rows, insert_raises)
                        ELSE rows
        updated == update_session_responses(after_create, responses, update_raises)
    IN  IF body # "ok"
        THEN IntakeResult("intake_bulk", FALSE, NoKey, << >>, FALSE, rows)
        ELSE IntakeResult("intake_bulk", updated.ok, responses, found,
                          found = << >>, updated.rows)

\* POST /submit-questionnaire: the same steps, then a chat message that is
\* logged on success (save_chat_message catches what the store raises)
submit_questionnaire(body, responses, rows, lookup_raises, insert_raises, update_raises) ==
    [agent_intake_bulk(body, responses, rows, lookup_raises, insert_raises,
                       update_raises)
        EXCEPT !.endpoint = "submit_questionnaire"]

IntakeBodies == {"ok", "not_json", "no_session_id", "no_responses"}

Responses == {"{risk_tolerance: 1}", "{risk_tolerance: 3}", "{risk_tolerance: 5}"}

\* the table holds at most MaxSessions rows for one session id
MaxSessions == 2

(***************************************************************************)
(* State machine: a stored session, a market, and the three tools, each    *)
(* callable any number of times; and one streaming chat turn.              *)
(***************************************************************************)
VARIABLES store, market, risk_tolerance, fetchResult, driftResult, optResult

\* the streaming turn: its inputs, the routing decision, the statements the
\* generator still has to execute, the events yielded and the agents run
VARIABLES router_out, user_message, questionnaire, phase, decision, todo,
          events, calls

toolVars == << store, market, risk_tolerance, fetchResult, driftResult, optResult >>

streamVars ==
    << router_out, user_message, questionnaire, phase, decision, todo, events, calls >>

\* one request to POST /agent/chat and what the handler gave back
VARIABLES request, session_found, chatResult

chatVars == << request, session_found, chatResult >>

\* the rows of portfolio_sessions for one session id, and what the last
\* request to POST /agent/intake_bulk gave back
VARIABLES sessions, intakeResult

intakeVars == << sessions, intakeResult >>

vars == << toolVars, streamVars, chatVars, intakeVars >>

NoIntake == IntakeResult("none", FALSE, NoKey, << >>, FALSE, << >>)

\* no request to POST /agent/intake_bulk
IntakeIdle ==
    /\ sessions = << >>
    /\ intakeResult = NoIntake

NoChat == ChatResult("none", "", << >>, << >>)

\* no request to POST /agent/chat
ChatIdle ==
    /\ request = "ok"
    /\ session_found = TRUE
    /\ chatResult = NoChat
    /\ IntakeIdle

\* no streaming turn
StreamIdle ==
    /\ router_out = RouterOut("absent", << >>)
    /\ user_message = "Hello"
    /\ questionnaire = "complete"
    /\ phase = "idle"
    /\ decision = Decision(JNone, << >>, << >>)
    /\ todo = << >>
    /\ events = << >>
    /\ calls = << >>

NoFetch == FetchResult("none", 0, FALSE, << >>, << >>, 0)

NoDrift == DriftResult("none", 0, 0, EmptyBuckets, F(0))

NoOpt == OptResult("none", 0, 0, EmptyBuckets, F(0))

Init ==
    /\ \E in \in AllocInputs \cup MixedInputs \cup MissingInputs :
        /\ store = in.store
        /\ market = in.market
        /\ risk_tolerance = in.risk_tolerance
    /\ fetchResult = NoFetch
    /\ driftResult = NoDrift
    /\ optResult = NoOpt
    /\ StreamIdle
    /\ ChatIdle

FetchPortfolioData ==
    /\ \E holdings \in Holdings :
        fetchResult' = fetch_portfolio_data(store, market, holdings)
    /\ UNCHANGED << store, market, risk_tolerance, driftResult, optResult >>
    /\ UNCHANGED << streamVars, chatVars, intakeVars >>

AnalyzePortfolioDrift ==
    /\ driftResult' = analyze_portfolio_drift(store, market, risk_tolerance)
    /\ UNCHANGED << store, market, risk_tolerance, fetchResult, optResult >>
    /\ UNCHANGED << streamVars, chatVars, intakeVars >>

\* the buckets of the pending optimize call whose round() is a decimal tie
OptimizeTies ==
    LET base == optimize_portfolio(store, market, risk_tolerance, {})
    IN  IF base.kind = "plan"
        THEN TieBuckets(base.risk_level, base.buckets, base.total_val)
        ELSE {}

OptimizePortfolio ==
    /\ \E ties \in SUBSET OptimizeTies :
        optResult' = optimize_portfolio(store, market, risk_tolerance, ties)
    /\ UNCHANGED << store, market, risk_tolerance, fetchResult, driftResult >>
    /\ UNCHANGED << streamVars, chatVars, intakeVars >>

Next == FetchPortfolioData \/ AnalyzePortfolioDrift \/ OptimizePortfolio

Spec == Init /\ [][Next]_vars

(***************************************************************************)
(* State machine of one streaming turn (POST /agent/chat/stream): the      *)
(* routing block, then one step per yield, agent call or store read.       *)
(***************************************************************************)
\* no tool call in progress
ToolsIdle ==
    /\ store = Store("no_record", << >>, NoKey)
    /\ market = Market("empty", NoPrices)
    /\ risk_tolerance = ""
    /\ fetchResult = NoFetch
    /\ driftResult = NoDrift
    /\ optResult = NoOpt

StreamInit ==
    /\ router_out \in RouterOutputs
    /\ user_message \in Messages
    /\ questionnaire \in Questionnaires
    /\ phase = "routing"
    /\ decision = Decision(JNone, << >>, << >>)
    /\ todo = << >>
    /\ events = << >>
    /\ calls = << >>
    /\ ToolsIdle
    /\ ChatIdle

\* the routing block: at most one router call, then the decision
RouteIntent ==
    /\ phase = "routing"
    /\ decision' = RouterDecision(router_out)
    /\ calls' = IF router_out.kind = "absent" THEN << >> ELSE << "router" >>
    /\ todo' = Statements(RouterDecision(router_out), user_message, questionnaire)
    /\ phase' = "running"
    /\ UNCHANGED << router_out, user_message, questionnaire, events, toolVars, chatVars, intakeVars >>

\* yield create_stream_message(...)
YieldEvent ==
    /\ phase = "running" /\ todo # << >> /\ Head(todo).op = "yield"
    /\ events' = Append(events, Head(todo).event)
    /\ todo' = Tail(todo)
    /\ UNCHANGED << router_out, user_message, questionnaire, phase, decision,
                    calls, toolVars, chatVars, intakeVars >>

\* agents[key].run(...) returns
AgentReturns ==
    /\ phase = "running" /\ todo # << >> /\ Head(todo).op = "call"
    /\ calls' = Append(calls, Head(todo).agent)
    /\ todo' = Tail(todo)
    /\ UNCHANGED << router_out, user_message, questionnaire, phase, decision,
                    events, toolVars, chatVars, intakeVars >>

\* agents[key].run(...) raises: the outer except yields one error event and
\* the generator ends
AgentRaises ==
    /\ phase = "running" /\ todo # << >> /\ Head(todo).op = "call"
    /\ calls' = Append(calls, Head(todo).agent)
    /\ events' = Append(events, StreamError)
    /\ todo' = << >>
    /\ phase' = "closed"
    /\ UNCHANGED << router_out, user_message, questionnaire, decision, toolVars, chatVars, intakeVars >>

\* the read of questionnaire_responses; its outcome is the questionnaire input
ReadQuestionnaire ==
    /\ phase = "running" /\ todo # << >> /\ Head(todo).op = "read"
    /\ todo' = Tail(todo)
    /\ UNCHANGED << router_out, user_message, questionnaire, phase, decision,
                    events, calls, toolVars, chatVars, intakeVars >>

\* return, or the end of the generator body
Return ==
    /\ phase = "running" /\ todo = << >>
    /\ phase' = "closed"
    /\ UNCHANGED << router_out, user_message, questionnaire, decision, todo,
                    events, calls, toolVars, chatVars, intakeVars >>

StreamNext ==
    RouteIntent \/ YieldEvent \/ AgentReturns \/ AgentRaises
    \/ ReadQuestionnaire \/ Return

StreamSpec == StreamInit /\ [][StreamNext]_vars

(***************************************************************************)
(* State machine of POST /agent/chat: one request, handled once or again.  *)
(***************************************************************************)
ChatInit ==
    /\ router_out \in ChatRouterOutputs
    /\ request \in Requests
    /\ session_found \in BOOLEAN
    /\ chatResult = NoChat
    /\ user_message = "Hello"
    /\ questionnaire = "complete"
    /\ phase = "idle"
    /\ decision = Decision(JNone, << >>, << >>)
    /\ todo = << >>
    /\ events = << >>
    /\ calls = << >>
    /\ ToolsIdle
    /\ IntakeIdle

\* the handler, with an agent that returns or raises
AgentChat ==
    /\ \E agent_raises \in BOOLEAN :
        chatResult' = agent_chat(request, session_found, router_out, agent_raises)
    /\ UNCHANGED << request, session_found, toolVars, streamVars, intakeVars >>

ChatNext == AgentChat

ChatSpec == ChatInit /\ [][ChatNext]_vars

(***************************************************************************)
(* State machine of POST /agent/intake_bulk: requests for one session id,  *)
(* one after the other, over a table that starts without a row or with the *)
(* row that /init-session created.                                         *)
(***************************************************************************)
IntakeInit ==
    /\ sessions \in {<< >>, << SessionRow("questionnaire_started", "{}") >>}
    /\ intakeResult = NoIntake
    /\ ToolsIdle
    /\ StreamIdle
    /\ request = "ok"
    /\ session_found = TRUE
    /\ chatResult = NoChat

\* one request to POST /agent/intake_bulk; each store call completes or raises
AgentIntakeBulk ==
    /\ \E body \in IntakeBodies, responses \in Responses,
          lookup_raises, insert_raises, update_raises \in BOOLEAN :
          /\ intakeResult' = agent_intake_bulk(body, responses, sessions,
                                  lookup_raises, insert_raises, update_raises)
          /\ Len(intakeResult'.rows) <= MaxSessions
    /\ sessions' = intakeResult'.rows
    /\ UNCHANGED << toolVars, streamVars, chatVars >>

\* one request to POST /submit-questionnaire
SubmitQuestionnaire ==
    /\ \E body \in IntakeBodies, responses \in Responses,
          lookup_raises, insert_raises, update_raises \in BOOLEAN :
          /\ intakeResult' = submit_questionnaire(body, responses, sessions,
                                  lookup_raises, insert_raises, update_raises)
          /\ Len(intakeResult'.rows) <= MaxSessions
    /\ sessions' = intakeResult'.rows
    /\ UNCHANGED << toolVars, streamVars, chatVars >>

IntakeNext == AgentIntakeBulk \/ SubmitQuestionnaire

IntakeSpec == IntakeInit /\ [][IntakeNext]_vars

(***************************************************************************)
(* Properties.                                                             *)
(***************************************************************************)
SumRow(f) ==
    f["US Equity"] + f["International Equity"] + f["Emerging Markets"]
    + f["Bonds"] + f["Real Estate"] + f["Cash"]

\* the target allocation table of the specification
SpecTargetTable ==
    << Row(20, 5, 0, 55, 5, 15), Row(30, 10, 0, 45, 5, 10), Row(40, 12, 3, 35, 5, 5),
       Row(50, 15, 5, 25, 5, 0), Row(60, 20, 10, 5, 5, 0) >>

SpecTargetRow(level) == IF level \in 1..5 THEN SpecTargetTable[level] ELSE SpecTargetTable[3]

\* C1: a drift report has, for each of the six buckets, actualPct = bucketTotal
\* / total * 100 and diff = actualPct - target; totalAbsDrift is the sum of the
\* |diff|; the recommendation is "acceptable" exactly when totalAbsDrift < 10
\* and "rebalance" otherwise (so also at exactly 10); risk level 3 with weights
\* 50 / 30 / 20 in US Equity / Bonds / Cash gives totalAbsDrift = 50.
\* (pct, diff and total_abs_drift are numerators over total_val.)
C1_DriftArithmetic ==
    driftResult.kind = "report" =>
        LET r == driftResult
            total == r.total_val.v
        IN  /\ total = SumRow([b \in Buckets |-> r.buckets[b].v])
            /\ total > 0
            /\ r.tgt = SpecTargetRow(r.risk_level)
            /\ \A b \in Buckets :
                /\ r.pct[b] = 100 * r.buckets[b].v
                /\ r.diff[b] = r.pct[b] - r.tgt[b] * total
            /\ r.total_abs_drift = SumRow([b \in Buckets |-> Abs(r.diff[b])])
            /\ (r.recommendation = "acceptable") <=> (r.total_abs_drift < 10 * total)
            /\ (r.recommendation = "rebalance") <=> (r.total_abs_drift >= 10 * total)
            /\ ( /\ r.risk_level = 3
                 /\ r.pct = Row(50 * total, 0, 0, 30 * total, 0, 20 * total) )
               => /\ r.total_abs_drift = 50 * total
                  /\ r.recommendation = "rebalance"

\* a report whose total drift is exactly 10: rebalancing is recommended
C1_Witness ==
    /\ driftResult.kind = "report"
    /\ driftResult.total_abs_drift = 10 * driftResult.total_val.v
    /\ driftResult.recommendation = "rebalance"

\* the scenario of the specification: risk 3, weights 50 / 30 / 20
C1_Scenario ==
    /\ driftResult.kind = "report"
    /\ driftResult.risk_level = 3
    /\ driftResult.pct = Row(50 * driftResult.total_val.v, 0, 0,
                             30 * driftResult.total_val.v, 0,
                             20 * driftResult.total_val.v)

\* a report below the threshold
C1_Acceptable ==
    driftResult.kind = "report" /\ driftResult.recommendation = "acceptable"

\* C5: for every risk level 1..5 the target row used by the drift report and the
\* one used by the optimization plan are equal entry by entry, equal the table
\* of the specification, cover exactly the six buckets and sum to 100.
C5_TargetRows ==
    /\ driftResult.kind = "report" =>
        /\ driftResult.tgt = SpecTargetRow(driftResult.risk_level)
        /\ DOMAIN driftResult.tgt = Buckets
        /\ SumRow(driftResult.tgt) = 100
    /\ optResult.kind = "plan" =>
        /\ optResult.target = SpecTargetRow(optResult.risk_level)
        /\ DOMAIN optResult.target = Buckets
        /\ SumRow(optResult.target) = 100
    /\ ( /\ driftResult.kind = "report"
         /\ optResult.kind = "plan"
         /\ driftResult.risk_level = optResult.risk_level )
       => \A b \in Buckets : driftResult.tgt[b] = optResult.target[b]

\* both tools have answered for risk level 4
C5_Witness ==
    /\ driftResult.kind = "report"
    /\ optResult.kind = "plan"
    /\ driftResult.risk_level = 4
    /\ optResult.risk_level = 4

\* the labels of the model that contain "balanced"
HasBalancedLabel(label) == label \in {"Balanced Portfolio", "Balanced Cash Fund"}

BalancedPart(positions) == SelectSeq(positions, LAMBDA c : HasBalancedLabel(c.cls))

OtherPart(positions) == SelectSeq(positions, LAMBDA c : ~HasBalancedLabel(c.cls))

\* the price map the optimize path works with
OptPrices == IF market.status = "ok" THEN market.prices ELSE [t \in {} |-> PriceAbsent]

\* the value the drift path gives a row
DriftRowValue(row) ==
    IF row.units = "usd" THEN row.amount
    ELSE LET price == PriceOf(market.prices, UpperOf[row.ticker])
         IN  IF price.tag = "num" THEN row.amount * price.v ELSE 0

RECURSIVE DriftValue(_)
DriftValue(rows) ==
    IF rows = << >> THEN 0 ELSE DriftRowValue(Head(rows)) + DriftValue(Tail(rows))

\* the value the optimize path gives a sequence of rows (a float)
RECURSIVE OptValue(_)
OptValue(rows) ==
    IF rows = << >> THEN F(0)
    ELSE FAdd(optimize_val(Head(rows), OptPrices), OptValue(Tail(rows)))

\* tenths of a dollar a balanced dollar adds to bucket b
BalancedShare(b) == IF b = "US Equity" THEN 6 ELSE IF b = "Bonds" THEN 4 ELSE 0

\* C4: in both paths the rows of an asset class whose label contains "balanced"
\* add exactly 60% of their value to US Equity, 40% to Bonds and nothing to any
\* other bucket, whatever bucket the classifier returns for the label; a 10,000
\* USD row under "Balanced Portfolio" adds 6,000 and 4,000.
C4_BalancedSplit ==
    /\ driftResult.kind \in {"report", "zero_value"} =>
        LET value == DriftValue(AllRows(BalancedPart(store.positions)))
            rest == drift_buckets(OtherPart(store.positions), market.prices, EmptyBuckets)
        IN  \A b \in Buckets :
                driftResult.buckets[b] = F(rest[b].v + BalancedShare(b) * value)
    /\ optResult.kind \in {"plan", "zero_value"} =>
        LET value == OptValue(AllRows(BalancedPart(store.positions)))
            rest == optimize_buckets(OtherPart(store.positions), OptPrices, EmptyBuckets)
        IN  \A b \in Buckets :
                optResult.buckets[b] =
                    IF BalancedShare(b) = 0 \/ BalancedPart(store.positions) = << >>
                    THEN rest[b]
                    ELSE FAdd(rest[b], FScale(value, BalancedShare(b)))
    /\ store.positions = << Cls("Balanced Portfolio", << PRow("", 10000, "usd") >>) >> =>
        /\ driftResult.kind = "report" =>
            driftResult.buckets = [EmptyBuckets EXCEPT !["US Equity"] = F(60000),
                                                       !["Bonds"] = F(40000)]
        /\ optResult.kind = "plan" =>
            optResult.buckets = [EmptyBuckets EXCEPT !["US Equity"] = F(60000),
                                                     !["Bonds"] = F(40000)]

\* both tools have valued a "Balanced Cash Fund" with a dollar row
C4_Witness ==
    /\ driftResult.kind = "report"
    /\ optResult.kind = "plan"
    /\ store.positions # << >>
    /\ store.positions[1].cls = "Balanced Cash Fund"
    /\ driftResult.buckets["US Equity"].v >= 60000
    /\ optResult.buckets["Bonds"] = F(40000)

\* C10: when a requested ticker has no resolvable price (no entry, None or NaN)
\* fetch_portfolio_data returns an error naming exactly the unresolvable tickers
\* and no valuation; when the oracle fails or returns nothing the error names
\* every ticker that was attempted.
C10_UnpricedTickers ==
    (fetchResult.kind # "none" /\ store.kind = "json" /\ store.positions # << >>) =>
        LET r == fetchResult
            unresolved == { t \in SeqToSet(r.tickers) :
                              PriceOf(market.prices, t).tag \in {"absent", "none", "nan"} }
        IN  /\ ~r.used_holdings =>
                SeqToSet(r.tickers) =
                    { IF UpperOf[row.ticker] = "REITS" THEN "VNQ" ELSE UpperOf[row.ticker] :
                        row \in { x \in SeqToSet(AllRows(store.positions)) :
                                    x.ticker \notin {NoKey, ""} } }
            /\ (market.status = "ok" /\ unresolved # {}) =>
                /\ r.kind = "pricing_error"
                /\ SeqToSet(r.named) = unresolved
                /\ Len(r.named) = Cardinality(unresolved)
                /\ r.total_value = 0
            /\ market.status \in {"empty", "raise"} =>
                /\ r.kind = IF market.status = "empty" THEN "oracle_empty" ELSE "oracle_error"
                /\ r.named = r.tickers
                /\ r.tickers # << >>
                /\ r.total_value = 0
            /\ r.kind = "valuation" => (market.status = "ok" /\ unresolved = {})

\* two tickers were requested, one priced and one not: only the latter is named
C10_Witness ==
    /\ fetchResult.kind = "pricing_error"
    /\ fetchResult.tickers = << "SPY", "ZZZZ" >>
    /\ fetchResult.named = << "ZZZZ" >>
    /\ market.prices["ZZZZ"] = PriceNone

\* C2: the plan has for every bucket delta = round(target - actualPct, 1) (diff,
\* in tenths); a bucket is in the trade list if and only if |delta| >= 1, as
\* "Buy" when delta > 0 and "Sell" when delta < 0, with magnitude |delta|; when
\* no bucket survives the plan is the "already aligned" line.
C2_TradeList ==
    optResult.kind = "plan" =>
        LET r == optResult
            total == r.total_val.v
            LinesOf(b) == { i \in 1..Len(r.trade_lines) : r.trade_lines[i].bucket = b }
        IN  /\ \A b \in Buckets :
                /\ ~r.nan =>
                    2 * Abs(DeltaNum(r.target[b], r.buckets[b].v, total) - r.diff[b] * total)
                        <= total
                /\ (LinesOf(b) # {}) <=> (~r.nan /\ Abs(r.diff[b]) >= 10)
                /\ Cardinality(LinesOf(b)) <= 1
                /\ \A i \in LinesOf(b) :
                    /\ ~r.trade_lines[i].nan
                    /\ r.trade_lines[i].pct = Abs(r.diff[b])
                    /\ (r.trade_lines[i].action = "Buy") <=> (r.diff[b] > 0)
                    /\ (r.trade_lines[i].action = "Sell") <=> (r.diff[b] < 0)
            /\ r.aligned <=> (r.trade_lines = << >>)
            /\ r.aligned <=> (\A b \in Buckets : ~r.nan /\ Abs(r.diff[b]) < 10)

\* the classifier of the specification: first match wins
SpecClassify(label) ==
    LET al == lower(label)
    IN  IF Contains(al, "bond") \/ Contains(al, "fixed income") THEN "Bonds"
        ELSE IF Contains(al, "real estate") \/ Contains(al, "reit") THEN "Real Estate"
        ELSE IF Contains(al, "emerging") THEN "Emerging Markets"
        ELSE IF Contains(al, "international") \/ Contains(al, "developed")
             THEN "International Equity"
        ELSE IF Contains(al, "cash") THEN "Cash"
        ELSE "US Equity"

SpecBucketOf == [l \in Labels \cup AllocLabels |-> SpecClassify(l)]

\* C3: the classifier of the drift path and the classifier of the optimize path
\* both put the whole value of an asset class (not "balanced") into the bucket
\* the first-match rules give its label: bond / fixed income -> Bonds, real
\* estate / reit -> Real Estate, emerging -> Emerging Markets, international /
\* developed -> International Equity, cash -> Cash, otherwise US Equity.
C3_Classifiers ==
    (Len(store.positions) = 1 /\ ~HasBalancedLabel(store.positions[1].cls)) =>
        LET bucket == SpecBucketOf[store.positions[1].cls]
        IN  /\ driftResult.kind = "report" =>
                driftResult.buckets[bucket] = driftResult.total_val
            /\ (optResult.kind = "plan" /\ ~optResult.nan) =>
                optResult.buckets[bucket] = optResult.total_val

\* the level the claim reads off a risk string: the leading digit, else 3
ClaimedLevel(risk) ==
    IF Len(risk) > 0 /\ IsDigitChar(SubSeq(risk, 1, 1))
    THEN IndexIn(SubSeq(risk, 1, 1), Digits) - 1
    ELSE 3

ClaimedLevelOf == [r \in RiskStrings |-> ClaimedLevel(r)]

\* C6: for every risk string both tools select the same target row, the row of
\* the leading digit (level 3 when there is none or the level is outside 1..5),
\* and no risk string makes a tool fail that succeeds with "3 - Moderate".
C6_RiskLevel ==
    LET row == SpecTargetRow(ClaimedLevelOf[risk_tolerance])
    IN  /\ driftResult.kind = "report" => driftResult.tgt = row
        /\ optResult.kind = "plan" => optResult.target = row
        /\ (driftResult.kind = "report" /\ optResult.kind = "plan") =>
                driftResult.tgt = optResult.target
        /\ ( /\ driftResult.kind # "none"
             /\ analyze_portfolio_drift(store, market, "3 - Moderate").kind = "report" )
           => driftResult.kind = "report"
        /\ ( /\ optResult.kind # "none"
             /\ optimize_portfolio(store, market, "3 - Moderate", {}).kind = "plan" )
           => optResult.kind = "plan"

\* every row is a shares row whose price is missing or NaN
AllSharesUnpriced ==
    /\ store.kind = "json"
    /\ AllRows(store.positions) # << >>
    /\ market.status = "ok"
    /\ \A row \in SeqToSet(AllRows(store.positions)) :
        /\ row.units = "shares"
        /\ PriceOf(market.prices, UpperOf[row.ticker]).tag \in {"absent", "nan"}

\* C7: a portfolio without value (bucket totals summing to zero, also when every
\* shares row is unpriced) gets the zero-value error of each tool, and a weight
\* is computed only for a total that is a non-zero number: no NaN weight reaches
\* the report or the trade list.
C7_ZeroValue ==
    /\ driftResult.kind \in {"report", "zero_value"} =>
        /\ ~driftResult.total_val.nan
        /\ (driftResult.kind = "zero_value") <=> (driftResult.total_val.v = 0)
    /\ optResult.kind \in {"plan", "zero_value"} =>
        /\ ~optResult.total_val.nan
        /\ (optResult.kind = "zero_value") <=> (optResult.total_val.v = 0)
        /\ \A i \in 1..Len(optResult.trade_lines) : ~optResult.trade_lines[i].nan
    /\ AllSharesUnpriced =>
        /\ driftResult.kind \in {"none", "zero_value"}
        /\ optResult.kind \in {"none", "zero_value"}

\* the positions payload is absent or empty
StoreMissing ==
    \/ store.kind \in {"no_record", "no_field", "empty_string"}
    \/ store.kind = "json" /\ store.positions = << >>

\* C8: with an absent or empty positions payload each of the three tools returns
\* a missing-data message, calls the oracle zero times and does not derive
\* tickers from the holdings text (stated for a well-formed risk string).
C8_MissingData ==
    (StoreMissing /\ risk_tolerance = "3 - Moderate") =>
        /\ fetchResult.kind # "none" =>
            /\ fetchResult.kind = "missing_data"
            /\ fetchResult.oracle_calls = 0
            /\ ~fetchResult.used_holdings
        /\ driftResult.kind # "none" =>
            /\ driftResult.kind \in {"missing_data", "no_positions"}
            /\ driftResult.oracle_calls = 0
        /\ optResult.kind # "none" =>
            /\ optResult.kind \in {"missing_data", "session_missing"}
            /\ optResult.oracle_calls = 0

\* positions without row ri of asset class ci
RemoveRow(positions, ci, ri) ==
    [positions EXCEPT ![ci].rows =
        SubSeq(@, 1, ri - 1) \o SubSeq(@, ri + 1, Len(@))]

\* the shares rows whose price is missing or NaN, as <<class, row>> indexes
UnpricedRows ==
    { cr \in (1..Len(store.positions)) \X (1..MaxRows) :
        /\ cr[2] <= Len(store.positions[cr[1]].rows)
        /\ store.positions[cr[1]].rows[cr[2]].units = "shares"
        /\ PriceOf(market.prices,
                   UpperOf[store.positions[cr[1]].rows[cr[2]].ticker]).tag
             \in {"absent", "nan"} }

WithoutRow(cr) == [store EXCEPT !.positions = RemoveRow(@, cr[1], cr[2])]

\* C9: in both paths a shares row whose price is missing or NaN contributes 0:
\* the result equals the result for the portfolio without that row (stated for
\* portfolios in which another row remains; the count of oracle calls is not
\* part of the result).
C9_UnpricedRowIgnored ==
    market.status = "ok" =>
        \A cr \in UnpricedRows :
            Len(AllRows(store.positions)) > 1 =>
                /\ driftResult.kind # "none" =>
                    driftResult = analyze_portfolio_drift(WithoutRow(cr), market, risk_tolerance)
                /\ optResult.kind # "none" =>
                    \E ties \in SUBSET Buckets :
                        [optResult EXCEPT !.oracle_calls = 0] =
                        [optimize_portfolio(WithoutRow(cr), market, risk_tolerance, ties)
                            EXCEPT !.oracle_calls = 0]

\* the value of one row as the specification defines it: the amount of a usd
\* row, amount x price of a shares row
SpecRowValue(row, prices) ==
    IF row.units = "usd" THEN row.amount
    ELSE row.amount * PriceOf(prices, fetch_ticker(row)).v

RECURSIVE SpecTotalValue(_, _)
SpecTotalValue(rows, prices) ==
    IF rows = << >> THEN 0
    ELSE SpecRowValue(Head(rows), prices) + SpecTotalValue(Tail(rows), prices)

\* C11: when all prices resolve, the total market value reported by
\* fetch_portfolio_data is the sum of the row values (amount of a usd row,
\* amount x price of a shares row), every row counted exactly once.
C11_TotalValue ==
    fetchResult.kind = "valuation" =>
        fetchResult.total_value
            = SpecTotalValue(AllRows(store.positions), market.prices)

\* a stored portfolio made only of usd rows whose ticker is empty or missing
SelfReportedOnly ==
    /\ store.kind = "json"
    /\ AllRows(store.positions) # << >>
    /\ \A row \in SeqToSet(AllRows(store.positions)) :
        row.units = "usd" /\ row.ticker \in {"", NoKey}

\* C12: on a portfolio made only of usd rows with an empty or missing ticker,
\* analyze_portfolio_drift and optimize_portfolio succeed and give the result
\* they give under every other answer of the price oracle.
C12_SelfReportedRows ==
    SelfReportedOnly =>
        /\ driftResult.kind # "none" =>
            /\ driftResult.kind = "report"
            /\ \A m \in Markets :
                [driftResult EXCEPT !.oracle_calls = 0] =
                [analyze_portfolio_drift(store, m, risk_tolerance)
                    EXCEPT !.oracle_calls = 0]
        /\ optResult.kind # "none" =>
            /\ optResult.kind = "plan"
            /\ \A m \in Markets : \E ties \in SUBSET Buckets :
                optResult = optimize_portfolio(store, m, risk_tolerance, ties)

\* a / b = c / d for a, c >= 0 and b, d > 0, by comparing the continued
\* fractions (the products a * d and c * b do not fit the integers of the
\* model checker for the largest portfolios)
RECURSIVE SameFraction(_, _, _, _)
SameFraction(a, b, c, d) ==
    IF a \div b # c \div d THEN FALSE
    ELSE IF a % b = 0 \/ c % d = 0 THEN a % b = c % d
    ELSE SameFraction(b, a % b, d, c % d)

\* C23: for the same stored positions and the same price map, the bucket
\* weights of the optimize plan equal the bucket percentages of the drift
\* report for all six buckets, for every asset-class label and every mix of
\* resolvable and unresolvable prices (both are numerators over the total
\* of their own path, so they are compared as fractions).
C23_SameWeights ==
    (driftResult.kind = "report" /\ optResult.kind = "plan") =>
        /\ ~optResult.nan
        /\ \A b \in Buckets :
              SameFraction(driftResult.pct[b], driftResult.total_val.v,
                           optResult.weights[b], optResult.total_val.v)

\* the value of the rows that a path counts, in dollars: the amount of a usd
\* row, amount x price of a shares row with a price, nothing otherwise
RECURSIVE CountedValue(_, _)
CountedValue(rows, prices) ==
    IF rows = << >> THEN 0
    ELSE LET row == Head(rows)
             tkr == UpperOf[IF row.ticker = NoKey THEN "" ELSE row.ticker]
         IN  (IF row.units = "usd" THEN row.amount
              ELSE row.amount * PriceOf(prices, tkr).v)
             + CountedValue(Tail(rows), prices)

\* C30: whenever analyze_portfolio_drift or optimize_portfolio gets past the
\* zero-total guard with non-negative amounts and prices, the six bucket
\* totals sum to the sum of all counted row values (the 60/40 split loses and
\* adds nothing), the six percentage weights sum to 100, and the six signed
\* differences actual - target sum to 0.  (Bucket totals are in tenths of a
\* dollar; weights and differences are numerators over the total.)
C30_Conservation ==
    LET counted == 10 * CountedValue(AllRows(store.positions), market.prices)
    IN  /\ driftResult.kind = "report" =>
              /\ SumRow([b \in Buckets |-> driftResult.buckets[b].v]) = counted
              /\ SumRow(driftResult.pct) = 100 * driftResult.total_val.v
              /\ SumRow(driftResult.diff) = 0
        /\ (optResult.kind = "plan" /\ ~optResult.nan) =>
              /\ SumRow([b \in Buckets |-> optResult.buckets[b].v]) = counted
              /\ SumRow(optResult.weights) = 100 * optResult.total_val.v
              /\ SumRow([b \in Buckets |->
                            optResult.weights[b]
                            - optResult.target[b] * optResult.total_val.v]) = 0

\* a report and a plan for a portfolio with a balanced class, whose value
\* went to US Equity and to Bonds
C30_Witness ==
    /\ driftResult.kind = "report"
    /\ optResult.kind = "plan" /\ ~optResult.nan
    /\ \E i \in 1..Len(store.positions) : BalancedOf[store.positions[i].cls]
    /\ driftResult.buckets["Bonds"].v > 0 /\ driftResult.buckets["US Equity"].v > 0
    /\ optResult.buckets["Bonds"].v > 0 /\ optResult.buckets["US Equity"].v > 0

(***************************************************************************)
(* Properties of the streaming turn.                                       *)
(***************************************************************************)
\* the worker agents run so far, in order
WorkerCalls == SelectSeq(calls, LAMBDA a : a \in Workers)

RouterCalls == SelectSeq(calls, LAMBDA a : a = "router")

\* the menu of suggested actions has been emitted
MenuEmitted == \E i \in 1..Len(events) : events[i].content = "menu"

\* an agent call of this turn raised
AgentRaised == \E i \in 1..Len(events) : events[i] = StreamError

EndsWithStreamEnd == events # << >> /\ events[Len(events)] = StreamEnd

\* the agent calls among a sequence of statements
PlannedCalls(ops) ==
    LET call_ops == SelectSeq(ops, LAMBDA o : o.op = "call")
    IN  [i \in 1..Len(call_ops) |-> call_ops[i].agent]

\* C13: every stream ends with a stream_end event, for every router outcome,
\* every state of the questionnaire and every outcome of an agent call.
C13_EndsWithStreamEnd ==
    phase = "closed" => EndsWithStreamEnd

\* C14: when the router gave several intents, a worker-agent call that raises
\* does not stop the later steps: once the stream is over, every agent call of
\* the turn has been made.
C14_LaterStepsRun ==
    LET planned == PlannedCalls(Statements(decision, user_message, questionnaire))
    IN  phase = "closed" /\ Len(decision.intents_list) > 1 => WorkerCalls = planned

\* the worker agent of an intent
AgentOf(intent) ==
    CASE intent = "fetch_data" -> "data_fetch"
      [] intent = "analyze_drift" -> "analysis"
      [] intent = "optimize_portfolio" -> "optimization"
      [] intent = "explain_recommendations" -> "explainability"

\* the agent runs the specification prescribes for a list of intents: the
\* agents of the intents in the listed order, with one data_fetch before the
\* first analyze_drift or optimize_portfolio unless data was fetched already
RECURSIVE SpecSequence(_, _)
SpecSequence(intents, fetched) ==
    IF intents = << >> THEN << >>
    ELSE LET needs == Head(intents) \in {"analyze_drift", "optimize_portfolio"}
         IN  (IF needs /\ ~fetched THEN << "data_fetch" >> ELSE << >>)
             \o << AgentOf(Head(intents)) >>
             \o SpecSequence(Tail(intents),
                             fetched \/ needs \/ Head(intents) = "fetch_data")

\* the last two events are agent_complete and stream_end
EndsWithComplete ==
    /\ Len(events) >= 2
    /\ events[Len(events) - 1].type = "agent_complete"
    /\ events[Len(events)] = StreamEnd

\* C15: when the router returns {"intents": [...]} with several intents, none
\* of them full_analysis, and no agent call raises, the turn runs exactly the
\* agents of those intents in the listed order, with one data_fetch before the
\* first analyze_drift or optimize_portfolio unless one has run, and ends with
\* agent_complete and stream_end.
C15_IntentSequence ==
    \A l \in IntentLists :
        router_out = RouterOut("text", IntentsOnly(l)) /\ phase = "closed" /\ ~AgentRaised
        => WorkerCalls = SpecSequence(l, FALSE) /\ EndsWithComplete

\* s occurs in t as a subsequence
RECURSIVE IsSubsequence(_, _)
IsSubsequence(s, t) ==
    IF s = << >> THEN TRUE
    ELSE IF t = << >> THEN FALSE
    ELSE IF Head(s) = Head(t) THEN IsSubsequence(Tail(s), Tail(t))
    ELSE IsSubsequence(s, Tail(t))

\* the router's answer names full_analysis, as the intent or in the list
AnswerHasFullAnalysis ==
    /\ phase # "routing"
    /\ \/ decision.router_intent = JStr("full_analysis")
       \/ InList("full_analysis", decision.intents_list)

\* C16: when the router's answer contains full_analysis and no agent call
\* raises, the turn runs data_fetch, analysis, optimization and explainability
\* in that order.
C16_FullAnalysis ==
    AnswerHasFullAnalysis /\ phase = "closed" /\ ~AgentRaised
    => IsSubsequence(<< "data_fetch", "analysis", "optimization", "explainability" >>,
                     WorkerCalls)

\* C17: when the routed intent is clarify (from the router, from a router call
\* that raised or from an answer that could not be parsed), the turn runs the
\* router once and no worker agent, and it ends after the menu of suggested
\* actions with stream_end.
C17_Clarify ==
    phase # "routing" /\ decision.router_intent = JStr("clarify") =>
        /\ WorkerCalls = << >>
        /\ Len(RouterCalls) = 1
        /\ phase = "closed" => MenuEmitted /\ EndsWithStreamEnd

\* a turn routed to clarify by a failed router call has ended with the menu
C17_Witness ==
    /\ phase = "closed"
    /\ router_out.kind = "raise"
    /\ decision.router_intent = JStr("clarify")
    /\ MenuEmitted /\ EndsWithStreamEnd /\ calls = << "router" >>

\* the router gives no resolvable intent: no router agent, an object without
\* 'intent', 'unknown', or an intent outside the vocabulary
NoResolvableIntent ==
    \/ router_out.kind = "absent"
    \/ router_out \in
        { RouterOut("text", toks) :
            toks \in { Obj(<< >>),
                       Obj(Pair("options", Strs(<< "Show my portfolio data" >>, TRUE))),
                       IntentOnly("unknown"), IntentOnly("rebalance_now") } }

\* C18: when the router yields no resolvable intent, the turn emits the menu
\* of suggested actions and ends without running any worker agent (stated for
\* turns in which no agent call raises).
C18_NoIntent ==
    NoResolvableIntent /\ phase = "closed" /\ ~AgentRaised =>
        WorkerCalls = << >> /\ MenuEmitted /\ EndsWithStreamEnd

\* the answers of the input family from which no JSON object can be obtained
\* by stripping fences and tag, parsing, and extracting the {...} block
NoObjectTexts ==
    LET obj == IntentOnly("analyze_drift")
    IN  { obj \o << Word("or") >> \o IntentOnly("fetch_data"),
          << Word("I"), Word("cannot"), Word("tell") >>,
          << >>,
          << Fence >>,
          << Fence, Word("unsure"), Fence >>,
          Strs(<< "analyze_drift" >>, TRUE),
          << Tok("lit", "null") >>,
          << S("analyze_drift") >>,
          << P("{"), S("intent"), P(":"), S("analyze_drift") >>,
          << Word("use"), P("{"), Word("intent"), P("}") >>,
          << P("}"), Word("then"), P("{") >> }

NoObjectObtained ==
    \/ router_out.kind \in {"raise", "bad_content"}
    \/ router_out.kind = "text" /\ router_out.toks \in NoObjectTexts

\* C19: a router answer from which no JSON object can be obtained, an answer
\* whose content is not a string, and a router call that raises all give
\* intent clarify with an empty intent list.
C19_FailClosed ==
    NoObjectObtained /\ phase # "routing" =>
        decision.router_intent = JStr("clarify") /\ decision.intents_list = << >>

\* two objects in one answer have been routed to clarify
C19_Witness ==
    /\ phase = "closed"
    /\ router_out.toks = IntentOnly("analyze_drift") \o << Word("or") >>
                            \o IntentOnly("fetch_data")
    /\ decision = Decision(JStr("clarify"), << >>, << >>)

\* C24: in every streaming turn and on every routing path the analysis agent
\* and the optimization agent are invoked only after the data_fetch agent has
\* been invoked earlier in the same turn.
C24_DataBeforeAnalysis ==
    \A i \in 1..Len(calls) :
        calls[i] \in {"analysis", "optimization"} =>
            \E j \in 1..(i - 1) : calls[j] = "data_fetch"

\* a sequence whose first dispatch and first step explain, and whose second
\* step is an analysis that the loop precedes with a data refresh
C24_Witness ==
    /\ phase = "closed"
    /\ router_out = RouterOut("text",
            IntentAndIntents("explain_recommendations",
                             << "explain_recommendations", "analyze_drift" >>))
    /\ WorkerCalls = << "explainability", "explainability", "data_fetch", "analysis" >>

\* the router named explain_recommendations and no other intent
OnlyExplainRouted ==
    /\ decision.router_intent = JStr("explain_recommendations")
    /\ \A i \in 1..Len(decision.intents_list) :
          decision.intents_list[i] = "explain_recommendations"

\* C25: in a streaming turn whose only routed intent is
\* explain_recommendations the data_fetch agent is not invoked at any point of
\* the turn, whatever the user message and whatever other fields the router's
\* JSON carries.
C25_ExplainWithoutFetch ==
    OnlyExplainRouted => \A i \in 1..Len(calls) : calls[i] # "data_fetch"

\* the events that a sequence of statements yields
EventsOf(ops) ==
    LET yields == SelectSeq(ops, LAMBDA o : o.op = "yield")
    IN  [i \in 1..Len(yields) |-> yields[i].event]

\* the stream ends with the events of the legacy keyword routing for the
\* user message (no other block ends a stream with these events)
LegacyReached ==
    LET legacy == EventsOf(LegacyRouting(user_message))
    IN  /\ Len(legacy) <= Len(events)
        /\ SubSeq(events, Len(events) - Len(legacy) + 1, Len(events)) = legacy

\* C26: the legacy keyword routing on the user message is reached exactly when
\* the router is unavailable (no router agent, or the router call raises) or
\* its answer is ambiguous (no JSON object, or no resolvable intent); stated
\* for turns in which no agent call raises.
C26_LegacyRouting ==
    phase = "closed" /\ ~AgentRaised =>
        (LegacyReached <=> (NoObjectObtained \/ NoResolvableIntent))

\* event i of the stream is a result event of a worker agent
IsResultOf(i, agent) ==
    events[i].type \in {"agent_result", "agent_response"} /\ events[i].agent = agent

\* C27: in every stream each result event (agent_result or agent_response)
\* labelled with a worker agent is preceded, after that agent's previous
\* result event if any, by at least one progress event (agent_start or
\* agent_thinking) carrying the same agent label.
C27_ProgressBeforeResult ==
    \A i \in 1..Len(events) : \A agent \in Workers :
        IsResultOf(i, agent) =>
            \E j \in 1..(i - 1) :
                /\ events[j].type \in {"agent_start", "agent_thinking"}
                /\ events[j].agent = agent
                /\ \A k \in (j + 1)..(i - 1) : ~IsResultOf(k, agent)

\* a closed stream in which the explainability agent reported twice, each
\* time after narration of its own
C27_Witness ==
    /\ phase = "closed"
    /\ \E i, j \in 1..Len(events) :
          /\ i < j
          /\ IsResultOf(i, "explainability") /\ IsResultOf(j, "explainability")
          /\ events[j - 1].type = "agent_thinking"
          /\ events[j - 1].agent = "explainability"

\* C28: no stream contains more than one stream_end event, and no event of
\* any type is emitted after a stream_end event.
C28_StreamEndIsLast ==
    \A i \in 1..Len(events) : events[i].type = "stream_end" => i = Len(events)

\* a turn closed by the clarification block, whose stream_end is followed by
\* a return although more blocks follow in the generator
C28_Witness ==
    /\ phase = "closed"
    /\ IsNoIntent(decision.router_intent)
    /\ MenuEmitted
    /\ EndsWithStreamEnd

\* how often an agent has been called in this turn
CallCount(agent) == Len(SelectSeq(calls, LAMBDA a : a = agent))

\* C29: in a streaming turn where the router returns exactly one vocabulary
\* intent ({"intent": X} with X among fetch_data, analyze_drift,
\* optimize_portfolio, explain_recommendations, full_analysis) each worker
\* agent is invoked at most once during the turn.
C29_AtMostOnce ==
    (\E X \in {"fetch_data", "analyze_drift", "optimize_portfolio",
                "explain_recommendations", "full_analysis"} :
        router_out = RouterOut("text", IntentOnly(X))) =>
        \A agent \in Workers : CallCount(agent) <= 1

(***************************************************************************)
(* Properties of POST /agent/chat.                                         *)
(***************************************************************************)
\* the router call raised, or its answer holds no parseable JSON object
NoParseableObject ==
    \/ router_out.kind \in {"raise", "bad_content"}
    \/ router_out.kind = "text" /\ router_out.toks \in NoObjectTexts

\* C20: in POST /agent/chat a router answer without a parseable JSON object,
\* and a router call that raises, are handled as clarify: the response is the
\* clarification menu and neither a worker agent nor the orchestrator agent
\* is run.
C20_ChatFailClosed ==
    NoParseableObject /\ request = "ok" /\ session_found /\ chatResult.kind # "none" =>
        chatResult.response = "menu" /\ chatResult.agents = << "router" >>

\* C21: POST /agent/chat answers every request with a normal {response: string}
\* body and lets no exception escape the handler: a body that is not JSON, a
\* body without session_id or user_message, a session that is not found, and
\* any failure of the router or of an agent.
C21_AlwaysResponse ==
    chatResult.kind # "none" =>
        chatResult.kind = "response" /\ chatResult.response # ""

(***************************************************************************)
(* Properties of POST /agent/intake_bulk.                                  *)
(***************************************************************************)
\* C22: POST /agent/intake_bulk is an idempotent create-if-missing.  After a
\* call that answers {success: true}, also after earlier calls for the same
\* session id, the table holds exactly one row for that id, with the
\* submitted responses and status questionnaire_completed; and the create
\* step is attempted only when the lookup gave no record.
C22_IntakeBulk ==
    /\ intakeResult.endpoint = "intake_bulk" /\ intakeResult.created =>
          intakeResult.found = << >>
    /\ intakeResult.endpoint = "intake_bulk" /\ intakeResult.success =>
          sessions = << SessionRow("questionnaire_completed",
                                   intakeResult.responses) >>

====
